---- MODULE Spec2Model ----
(***************************************************************************)
(* A model of the arm11 assembler and emulator: the instruction model, the *)
(* encoder and decoder, the two-pass assembler, and the three-stage        *)
(* fetch-decode-execute pipeline.                                          *)
(*                                                                         *)
(* A 32-bit word is a record [hi, lo] of its two 16-bit halves, because    *)
(* the model checker's integers are signed 32-bit: all arithmetic on words *)
(* is done on the halves and wraps modulo 2^32 as u32 arithmetic does.     *)
(***************************************************************************)
EXTENDS Integers, Sequences, FiniteSets, TLC

VARIABLES
    stage,          \* which tool is at work and how it ended
    source,         \* the source program handed to the assembler
    asm,            \* the assembler's locals: symbol table, instruction
                    \* lines, code and pool buffers, next_free_address
    image,          \* the binary file: a sequence of bytes
    memory,         \* EmulatorState.memory, the non-zero bytes only
    register_file,  \* EmulatorState.register_file
    pipeline,       \* EmulatorState.pipeline: fetched and decoded
    origin,         \* the addresses the two pipeline slots were fetched from
    printed,        \* the GPIO messages and out-of-bounds reports printed
    overflow_checks,\* whether the build panics on integer overflow (debug
                    \* profile) or wraps (release profile)
    codec,          \* the encode/decode round trip of one instruction
    call            \* one call of a function of the program: its arguments
                    \* and, once it has returned, its result

vars == <<stage, source, asm, image, memory, register_file, pipeline, origin,
          printed, overflow_checks, codec, call>>

----------------------------------------------------------------------------
(* bounds of the model *)

\* the emulator is followed until it has printed this many messages
MaxPrinted == 3
\* instruction lines of a source with a branch between two labels
MaxLines == 4
\* instruction lines of a source with literal loads
MaxPoolLines == 3
\* lines between a literal load and the halt line of a long source
FarLines == 66

----------------------------------------------------------------------------
(* constants.rs *)

MEMORY_SIZE == 65536
NUM_REGS == 17
NUM_GENERAL_REGS == 13
BYTES_IN_WORD == 4
PIPELINE_OFFSET == 8
PC == 15
CPSR == 16

InstructionField(size, pos) == [size |-> size, pos |-> pos]

COND == InstructionField(4, 28)
I == InstructionField(1, 25)
S == InstructionField(1, 20)
RN == InstructionField(4, 16)
RD == InstructionField(4, 12)
OPCODE == InstructionField(4, 21)
P == InstructionField(1, 24)
U == InstructionField(1, 23)
L == InstructionField(1, 20)
A == InstructionField(1, 21)
RD_MULT == InstructionField(4, 16)
RN_MULT == InstructionField(4, 12)
RS == InstructionField(4, 8)
RM == InstructionField(4, 0)
OFFSET_BRANCH == InstructionField(24, 0)
IMM_VALUE == InstructionField(8, 0)
IMM_SHIFT == InstructionField(4, 8)
SHIFT_TYPE == InstructionField(2, 5)
CONST_SHIFT == InstructionField(5, 7)
REG_SHIFT == InstructionField(4, 8)

\* mask(size) = (1 << size) - 1, for the sizes the code uses (at most 24)
mask(size) == 2^size - 1

----------------------------------------------------------------------------
(* 32-bit words *)

Half == 2^16

W32(hi, lo) == [hi |-> hi, lo |-> lo]

\* a natural number below 2^31 as a word
FromNat(n) == W32(n \div Half, n % Half)

ZeroWord == W32(0, 0)

\* an i32 in -2^31 .. 2^31-1 as the word with the same bits (`as u32`)
FromInt(i) == IF i >= 0 THEN FromNat(i)
              ELSE W32(((i \div Half) + Half) % Half, i % Half)

\* the word read as an i32 (`as i32`)
ToInt(w) == IF w.hi < 32768 THEN w.hi * Half + w.lo
            ELSE (w.hi - Half) * Half + w.lo

RECURSIVE BitAnd(_, _)
BitAnd(a, b) == IF a = 0 \/ b = 0 THEN 0
                ELSE (a % 2) * (b % 2) + 2 * BitAnd(a \div 2, b \div 2)

RECURSIVE BitOr(_, _)
BitOr(a, b) == IF a = 0 THEN b
               ELSE IF b = 0 THEN a
               ELSE (IF a % 2 = 1 \/ b % 2 = 1 THEN 1 ELSE 0)
                    + 2 * BitOr(a \div 2, b \div 2)

RECURSIVE BitXor(_, _)
BitXor(a, b) == IF a = 0 THEN b
                ELSE IF b = 0 THEN a
                ELSE ((a + b) % 2) + 2 * BitXor(a \div 2, b \div 2)

AndW(x, y) == W32(BitAnd(x.hi, y.hi), BitAnd(x.lo, y.lo))
OrW(x, y) == W32(BitOr(x.hi, y.hi), BitOr(x.lo, y.lo))
XorW(x, y) == W32(BitXor(x.hi, y.hi), BitXor(x.lo, y.lo))

\* wrapping u32 addition and subtraction
AddW(x, y) ==
    LET lo == x.lo + y.lo
    IN  W32((x.hi + y.hi + lo \div Half) % Half, lo % Half)

SubW(x, y) ==
    LET lo == x.lo - y.lo
        borrow == IF lo < 0 THEN 1 ELSE 0
    IN  W32((x.hi - y.hi - borrow) % Half, lo % Half)

NegW(x) == SubW(ZeroWord, x)

\* v << pos on a u32, for v below 2^24 and pos below 32: bits shifted past
\* bit 31 are dropped
Shl(v, pos) ==
    IF pos >= 16
    THEN W32((v % Half) * 2^(pos - 16) % Half, 0)
    ELSE LET lowpart == (v % Half) * 2^pos
             highpart == (v \div Half) * 2^pos
         IN  W32((highpart + lowpart \div Half) % Half, lowpart % Half)

\* extract_bits(word, pos, size) = (word >> pos) & mask(size): utils.rs
extract_bits(w, pos, size) ==
    IF pos >= 16
    THEN (w.hi \div 2^(pos - 16)) % 2^size
    ELSE IF pos + size <= 16
    THEN (w.lo \div 2^pos) % 2^size
    ELSE (w.lo \div 2^pos) + 2^(16 - pos) * (w.hi % 2^(pos + size - 16))

\* extract_bit(word, index) = ((word >> index) & 1) == 1
extract_bit(w, index) == extract_bits(w, index, 1) = 1

\* to_le_bytes / from_le_bytes
\* the bytes of a word, most significant first
to_be_bytes(w) == <<w.hi \div 256, w.hi % 256, w.lo \div 256, w.lo % 256>>

to_le_bytes(w) == <<w.lo % 256, w.lo \div 256, w.hi % 256, w.hi \div 256>>
from_le_bytes(b) == W32(b[3] + 256 * b[4], b[1] + 256 * b[2])

----------------------------------------------------------------------------
(* types.rs: the instruction model *)

None == [some |-> FALSE]
Some(x) == [some |-> TRUE, val |-> x]

Ok(x) == [ok |-> TRUE, val |-> x]
Err(e) == [ok |-> FALSE, err |-> e]

ShiftTypes == {"Lsl", "Lsr", "Asr", "Ror"}
ShiftTypeNum == [t \in ShiftTypes |->
    CASE t = "Lsl" -> 0 [] t = "Lsr" -> 1 [] t = "Asr" -> 2 [] t = "Ror" -> 3]

ProcessingOpcodes ==
    {"And", "Eor", "Sub", "Rsb", "Add", "Tst", "Teq", "Cmp", "Orr", "Mov"}
ProcessingOpcodeNum == [o \in ProcessingOpcodes |->
    CASE o = "And" -> 0 [] o = "Eor" -> 1 [] o = "Sub" -> 2 [] o = "Rsb" -> 3
      [] o = "Add" -> 4 [] o = "Tst" -> 8 [] o = "Teq" -> 9 [] o = "Cmp" -> 10
      [] o = "Orr" -> 12 [] o = "Mov" -> 13]

ConditionCodes == {"Eq", "Ne", "Ge", "Lt", "Gt", "Le", "Al"}
ConditionCodeNum == [c \in ConditionCodes |->
    CASE c = "Eq" -> 0 [] c = "Ne" -> 1 [] c = "Ge" -> 10 [] c = "Lt" -> 11
      [] c = "Gt" -> 12 [] c = "Le" -> 13 [] c = "Al" -> 14]

CpsrFlag == [V |-> 28, C |-> 29, Z |-> 30, N |-> 31]

\* FromPrimitive::from_u8 of the three enums: None for a number that is no
\* variant
from_u8(nums, n) ==
    IF \E v \in DOMAIN nums : nums[v] = n
    THEN Some(CHOOSE v \in DOMAIN nums : nums[v] = n)
    ELSE None

\* Operand2::ConstantShift(to_shift, shift_amt): an 8-bit value and a rotate
Immediate(to_shift, shift_amt) ==
    [kind |-> "ConstantShift", to_shift |-> to_shift, shift_amt |-> shift_amt]
\* Operand2::ShiftedReg(reg, Shift::ConstantShift(type, amount))
ConstantShiftedReg(reg, shift_type, amount) ==
    [kind |-> "ShiftedReg", reg |-> reg,
     shift |-> [kind |-> "ConstantShift", shift_type |-> shift_type,
                amount |-> amount]]
\* Operand2::ShiftedReg(reg, Shift::RegisterShift(type, shift_reg))
RegisterShiftedReg(reg, shift_type, shift_reg) ==
    [kind |-> "ShiftedReg", reg |-> reg,
     shift |-> [kind |-> "RegisterShift", shift_type |-> shift_type,
                shift_reg |-> shift_reg]]

Processing(opcode, set_cond, rn, rd, operand2) ==
    [type |-> "Processing", opcode |-> opcode, set_cond |-> set_cond,
     rn |-> rn, rd |-> rd, operand2 |-> operand2]
Multiply(accumulate, set_cond, rd, rn, rs, rm) ==
    [type |-> "Multiply", accumulate |-> accumulate, set_cond |-> set_cond,
     rd |-> rd, rn |-> rn, rs |-> rs, rm |-> rm]
Transfer(is_preindexed, up_bit, load, rn, rd, offset) ==
    [type |-> "Transfer", is_preindexed |-> is_preindexed, up_bit |-> up_bit,
     load |-> load, rn |-> rn, rd |-> rd, offset |-> offset]
\* InstructionBranch.offset is an i32
Branch(offset) == [type |-> "Branch", offset |-> offset]
Halt == [type |-> "Halt"]

ConditionalInstruction(instruction, cond) ==
    [instruction |-> instruction, cond |-> cond]

Bool(b) == IF b THEN 1 ELSE 0

----------------------------------------------------------------------------
(* assemble/encode.rs *)

encode_operand2(op2) ==
    IF op2.kind = "ConstantShift"
    THEN OrW(Shl(op2.shift_amt, IMM_SHIFT.pos), Shl(op2.to_shift, 0))
    ELSE IF op2.shift.kind = "ConstantShift"
    THEN OrW(OrW(Shl(op2.shift.amount, CONST_SHIFT.pos),
                 Shl(ShiftTypeNum[op2.shift.shift_type], SHIFT_TYPE.pos)),
             Shl(op2.reg, 0))
    ELSE OrW(OrW(OrW(Shl(1, 4), Shl(op2.shift.shift_reg, REG_SHIFT.pos)),
                 Shl(ShiftTypeNum[op2.shift.shift_type], SHIFT_TYPE.pos)),
             Shl(op2.reg, 0))

encode_processing(instr) ==
    LET is_immediate == instr.operand2.kind = "ConstantShift"
    IN  OrW(OrW(OrW(OrW(OrW(Shl(Bool(is_immediate), I.pos),
                            Shl(ProcessingOpcodeNum[instr.opcode], OPCODE.pos)),
                        Shl(Bool(instr.set_cond), S.pos)),
                    Shl(instr.rn, RN.pos)),
                Shl(instr.rd, RD.pos)),
            encode_operand2(instr.operand2))

encode_multiply(instr) ==
    OrW(OrW(OrW(OrW(OrW(OrW(Shl(9, 4),
                            Shl(Bool(instr.accumulate), A.pos)),
                        Shl(Bool(instr.set_cond), S.pos)),
                    Shl(instr.rd, RD_MULT.pos)),
                Shl(instr.rn, RN_MULT.pos)),
            Shl(instr.rs, RS.pos)),
        Shl(instr.rm, 0))

encode_transfer(instr) ==
    LET is_shifted_r == instr.offset.kind = "ShiftedReg"
    IN  OrW(OrW(OrW(OrW(OrW(OrW(OrW(Shl(1, 26),
                                    Shl(Bool(is_shifted_r), I.pos)),
                                Shl(Bool(instr.is_preindexed), P.pos)),
                            Shl(Bool(instr.up_bit), U.pos)),
                        Shl(Bool(instr.load), L.pos)),
                    Shl(instr.rn, RN.pos)),
                Shl(instr.rd, RD.pos)),
            encode_operand2(instr.offset))

\* (offset as u32) & mask(24): the low 24 bits of the two's complement
encode_branch(instr) ==
    OrW(Shl(5, 25), Shl(instr.offset % 2^OFFSET_BRANCH.size, 0))

encode(instr) ==
    LET cond == Shl(ConditionCodeNum[instr.cond], COND.pos)
        body == CASE instr.instruction.type = "Processing" ->
                        encode_processing(instr.instruction)
                  [] instr.instruction.type = "Transfer" ->
                        encode_transfer(instr.instruction)
                  [] instr.instruction.type = "Multiply" ->
                        encode_multiply(instr.instruction)
                  [] instr.instruction.type = "Branch" ->
                        encode_branch(instr.instruction)
                  [] instr.instruction.type = "Halt" -> ZeroWord
    IN  OrW(cond, body)

----------------------------------------------------------------------------
(* emulate/decode.rs.  The decoder reads the word as a stream of bits from  *)
(* bit 31 down (to_be_bytes, then nom's bit parsers): take(w, c, n) is the  *)
(* n bits that follow the first c bits of the stream.                       *)

take(w, c, n) == extract_bits(w, 32 - c - n, n)

take_bool(w, c) == take(w, c, 1) = 1

\* the 12 bits of an operand2 start after `c` bits of the stream
decode_operand2_immediate(w, c) ==
    LET shift_amt == take(w, c, IMM_SHIFT.size)
        to_shift == take(w, c + IMM_SHIFT.size, IMM_VALUE.size)
    IN  Ok(Immediate(to_shift, shift_amt))

decode_shift_type(w, c) == from_u8(ShiftTypeNum, take(w, c, SHIFT_TYPE.size))

decode_operand2_shifted(w, c) ==
    LET is_shifted_r == take_bool(w, c + 7)
        \* first alternative: 4 bits, a 0 bit, the shift type, a 1 bit
        first_ok == take(w, c + 4, 1) = 0 /\ take(w, c + 7, 1) = 1
        \* second alternative: 5 bits, the shift type, a 0 bit
        second_ok == take(w, c + 7, 1) = 0
        shift_amt == IF first_ok THEN take(w, c, REG_SHIFT.size)
                     ELSE take(w, c, CONST_SHIFT.size)
        shift_type == decode_shift_type(w, c + 5)
        reg_to_shift == take(w, c + 8, 4)
    IN  IF ~(first_ok \/ second_ok) \/ ~shift_type.some
        THEN Err("decoding operand2 shifted")
        ELSE IF is_shifted_r
        THEN Ok(RegisterShiftedReg(reg_to_shift, shift_type.val, shift_amt))
        ELSE Ok(ConstantShiftedReg(reg_to_shift, shift_type.val, shift_amt))

decode_opcode(w, c) == from_u8(ProcessingOpcodeNum, take(w, c, OPCODE.size))

decode_cond(w, c) == from_u8(ConditionCodeNum, take(w, c, COND.size))

\* each instruction decoder starts after the 4 bits of the condition code
decode_processing(w) ==
    LET is_immediate == take_bool(w, 6)
        opcode == decode_opcode(w, 7)
        set_cond == take_bool(w, 11)
        rn == take(w, 12, RN.size)
        rd == take(w, 16, RD.size)
        operand2 == IF is_immediate THEN decode_operand2_immediate(w, 20)
                    ELSE decode_operand2_shifted(w, 20)
    IN  IF take(w, 4, 2) # 0 \/ ~opcode.some
        THEN Err("decoding processing instruction")
        ELSE IF ~operand2.ok THEN operand2
        ELSE Ok(Processing(opcode.val, set_cond, rn, rd, operand2.val))

decode_transfer(w) ==
    LET is_shifted_r == take_bool(w, 6)
        is_preindexed == take_bool(w, 7)
        up_bit == take_bool(w, 8)
        load == take_bool(w, 11)
        rn == take(w, 12, RN.size)
        rd == take(w, 16, RD.size)
        offset == IF is_shifted_r THEN decode_operand2_shifted(w, 20)
                  ELSE decode_operand2_immediate(w, 20)
    IN  IF take(w, 4, 2) # 1 \/ take(w, 9, 2) # 0
        THEN Err("decoding transfer instruction")
        ELSE IF ~offset.ok THEN offset
        ELSE Ok(Transfer(is_preindexed, up_bit, load, rn, rd, offset.val))

decode_multiply(w) ==
    LET accumulate == take_bool(w, 10)
        set_cond == take_bool(w, 11)
        rd == take(w, 12, RD_MULT.size)
        rn == take(w, 16, RN_MULT.size)
        rs == take(w, 20, RS.size)
        rm == take(w, 28, RM.size)
    IN  IF take(w, 4, 6) # 0 \/ take(w, 24, 4) # 9
        THEN Err("decoding multiply instruction")
        ELSE Ok(Multiply(accumulate, set_cond, rd, rn, rs, rm))

\* the 24 bits are taken as an unsigned number into the i32 offset
decode_branch(w) ==
    IF take(w, 4, 4) # 10
    THEN Err("decoding branch instruction")
    ELSE Ok(Branch(take(w, 8, OFFSET_BRANCH.size)))

decode_conditional_instruction(w) ==
    LET instr_type == <<take(w, 4, 2), take(w, 24, 4)>>
        cond == decode_cond(w, 0)
        instruction ==
            CASE instr_type[1] = 0 /\ instr_type[2] = 9 -> decode_multiply(w)
              [] instr_type[1] = 0 /\ instr_type[2] # 9 -> decode_processing(w)
              [] instr_type[1] = 1 -> decode_transfer(w)
              [] instr_type[1] = 2 -> decode_branch(w)
              [] OTHER -> Err("InvalidInstructionType")
    IN  IF instr_type[1] = 3 THEN Err("InvalidInstructionType")
        ELSE IF ~cond.some THEN Err("decoding condition code")
        ELSE IF ~instruction.ok THEN instruction
        ELSE Ok(ConditionalInstruction(instruction.val, cond.val))

decode(w) ==
    IF w = ZeroWord
    THEN Ok(ConditionalInstruction(Halt, "Eq"))
    ELSE decode_conditional_instruction(w)

----------------------------------------------------------------------------
(* word shifts, for amounts 0 .. 31 *)

ShlW(x, n) ==
    IF n >= 16
    THEN W32((x.lo * 2^(n - 16)) % Half, 0)
    ELSE W32((x.hi * 2^n + x.lo \div 2^(16 - n)) % Half, (x.lo * 2^n) % Half)

ShrW(x, n) ==
    IF n >= 16
    THEN W32(0, x.hi \div 2^(n - 16))
    ELSE W32(x.hi \div 2^n, x.lo \div 2^n + (x.hi % 2^n) * 2^(16 - n))

AllOnes == W32(Half - 1, Half - 1)
\* a right shift that fills with zeros whatever the sign
lsr_for_asr(x, n) == ShrW(x, n)

\* i32 >> n: the sign bit fills the vacated bits
AsrW(x, n) ==
    IF x.hi >= 32768 /\ n > 0
    THEN OrW(ShrW(x, n), ShlW(AllOnes, 32 - n))
    ELSE ShrW(x, n)

\* u32::rotate_right
RorW(x, n) ==
    IF n % 32 = 0 THEN x ELSE OrW(ShrW(x, n % 32), ShlW(x, 32 - (n % 32)))

\* a 16 x 16 bit product as a word
Mul16(a, b) == AddW(Shl(a * (b \div 256), 8), FromNat(a * (b % 256)))

\* u32 multiplication: the low 32 bits, and whether the product needs more
MulW(x, y) ==
    LET ll == Mul16(x.lo, y.lo)
        lh == Mul16(x.lo, y.hi)
        hl == Mul16(x.hi, y.lo)
        cross == lh.lo + hl.lo + ll.hi
    IN  [val |-> W32(cross % Half, ll.lo),
         overflow |-> (x.hi > 0 /\ y.hi > 0) \/ lh.hi > 0 \/ hl.hi > 0
                      \/ cross >= Half]

\* u32 addition overflows
AddOverflowsU(x, y) ==
    x.hi + y.hi + (x.lo + y.lo) \div Half >= Half

Negative(x) == x.hi >= 32768

\* i32 addition and subtraction overflow
AddOverflowsI(x, y) ==
    Negative(x) = Negative(y) /\ Negative(AddW(x, y)) # Negative(x)

SubOverflowsI(x, y) ==
    Negative(x) # Negative(y) /\ Negative(SubW(x, y)) # Negative(x)

MinInt == W32(32768, 0)

----------------------------------------------------------------------------
(* emulate/state.rs *)

Registers == 0 .. NUM_REGS - 1

NewPipeline == [fetched |-> None, decoded |-> None]

\* the bytes of memory that are not zero; every other byte is zero
MemByte(mem, a) == IF a \in DOMAIN mem THEN mem[a] ELSE 0

\* with_memory: the image resized to MEMORY_SIZE bytes, zero filled
with_memory(bytes) ==
    LET used == {a \in 0 .. Len(bytes) - 1 :
                    a < MEMORY_SIZE /\ bytes[a + 1] # 0}
    IN  [a \in used |-> bytes[a + 1]]

\* the slice memory[address .. address + 4] exists
SliceInRange(address) == address + BYTES_IN_WORD <= MEMORY_SIZE

\* the word at an address read with its most significant byte first
read_memory_be(mem, address) ==
    W32(MemByte(mem, address) * 256 + MemByte(mem, address + 1),
        MemByte(mem, address + 2) * 256 + MemByte(mem, address + 3))

read_memory(mem, address) ==
    from_le_bytes([i \in 1 .. 4 |-> MemByte(mem, address + i - 1)])

write_memory(mem, address, val) ==
    LET bytes == to_le_bytes(val)
        touched == address .. address + BYTES_IN_WORD - 1
        new(a) == IF a \in touched THEN bytes[a - address + 1] ELSE mem[a]
        keep == {a \in DOMAIN mem \cup touched : new(a) # 0}
    IN  [a \in keep |-> new(a)]
\* a set_flags that writes the bit below the flag's
set_flags_below(rf, flag, set) ==
    LET bit == Shl(1, flag - 1)
    IN  IF set
        THEN [rf EXCEPT ![CPSR] = OrW(rf[CPSR], bit)]
        ELSE [rf EXCEPT ![CPSR] = AndW(rf[CPSR], XorW(AllOnes, bit))]

set_flags(rf, flag, set) ==
    LET bit == Shl(1, flag)
    IN  IF set
        THEN [rf EXCEPT ![CPSR] = OrW(rf[CPSR], bit)]
        ELSE [rf EXCEPT ![CPSR] = AndW(rf[CPSR], XorW(AllOnes, bit))]

----------------------------------------------------------------------------
(* emulate/gpio.rs *)

GPIO_10 == W32(8224, 0)
GPIO_20 == W32(8224, 4)
GPIO_30 == W32(8224, 8)
PIN_OFF == W32(8224, 40)
PIN_ON == W32(8224, 28)

\* no address is a GPIO address
no_gpio(mem_address) == FALSE

gpio_accessed(mem_address) ==
    mem_address \in {GPIO_10, GPIO_20, GPIO_30, PIN_OFF, PIN_ON}

print_gpio_message(mem_address) ==
    CASE mem_address = GPIO_10 -> "One GPIO pin from 0 to 9 has been accessed"
      [] mem_address = GPIO_20 -> "One GPIO pin from 10 to 19 has been accessed"
      [] mem_address = GPIO_30 -> "One GPIO pin from 20 to 29 has been accessed"
      [] mem_address = PIN_OFF -> "PIN OFF"
      [] mem_address = PIN_ON -> "PIN ON"

----------------------------------------------------------------------------
(* emulate/execute.rs.  An operation on the emulator state st yields         *)
(* [status, st]: status is "ok", "panic" (the process aborts) or "err" (an   *)
(* Err is returned).  `checks` says whether the build checks integer         *)
(* overflow.                                                                 *)

Done(st) == [status |-> "ok", st |-> st]
Panic(st) == [status |-> "panic", st |-> st]
Failed(st) == [status |-> "err", st |-> st]

\* a condition test in which Gt and Le do not look at Z
satisfies_without_z(cond, cpsr_contents) ==
    LET n == extract_bit(cpsr_contents, CpsrFlag.N)
        z == extract_bit(cpsr_contents, CpsrFlag.Z)
        v == extract_bit(cpsr_contents, CpsrFlag.V)
    IN  CASE cond = "Eq" -> z
          [] cond = "Ne" -> ~z
          [] cond \in {"Ge", "Gt"} -> n = v
          [] cond \in {"Lt", "Le"} -> n # v
          [] cond = "Al" -> TRUE

satisfies_cpsr(cond, cpsr_contents) ==
    LET n == extract_bit(cpsr_contents, CpsrFlag.N)
        z == extract_bit(cpsr_contents, CpsrFlag.Z)
        v == extract_bit(cpsr_contents, CpsrFlag.V)
    IN  CASE cond = "Eq" -> z
          [] cond = "Ne" -> ~z
          [] cond = "Ge" -> n = v
          [] cond = "Lt" -> n # v
          [] cond = "Gt" -> ~z /\ (n = v)
          [] cond = "Le" -> z \/ (n # v)
          [] cond = "Al" -> TRUE

\* overflowing_shl / overflowing_shr shift by the amount modulo 32 and
\* return whether the amount was 32 or more; extract_bit's `>>` by 32 or
\* more panics where overflow is checked and shifts by the amount modulo 32
\* where it is not
shift(to_shift, shift_amt, shift_type, checks) ==
    IF shift_amt = 0
    THEN [val |-> to_shift, carry |-> FALSE, panic |-> FALSE]
    ELSE CASE shift_type = "Lsl" ->
                [val |-> ShlW(to_shift, shift_amt % 32),
                 carry |-> shift_amt >= 32, panic |-> FALSE]
           [] shift_type = "Lsr" ->
                [val |-> ShrW(to_shift, shift_amt % 32),
                 carry |-> shift_amt >= 32, panic |-> FALSE]
           [] shift_type = "Asr" ->
                [val |-> AsrW(to_shift, shift_amt % 32),
                 carry |-> shift_amt >= 32, panic |-> FALSE]
           [] shift_type = "Ror" ->
                [val |-> RorW(to_shift, shift_amt),
                 carry |-> extract_bit(to_shift, (shift_amt - 1) % 32),
                 panic |-> checks /\ shift_amt - 1 >= 32]

\* a barrel shifter that rotates an immediate by its rotate field, not by
\* twice the field
barrel_shifter_unscaled(op2, rf, checks) ==
    IF op2.kind = "ConstantShift"
    THEN shift(FromNat(op2.to_shift), op2.shift_amt, "Ror", checks)
    ELSE IF op2.shift.kind = "ConstantShift"
    THEN shift(rf[op2.reg], op2.shift.amount, op2.shift.shift_type, checks)
    ELSE shift(rf[op2.reg], rf[op2.shift.shift_reg].lo % 256,
               op2.shift.shift_type, checks)

barrel_shifter(op2, rf, checks) ==
    IF op2.kind = "ConstantShift"
    THEN shift(FromNat(op2.to_shift), 2 * op2.shift_amt, "Ror", checks)
    ELSE IF op2.shift.kind = "ConstantShift"
    THEN shift(rf[op2.reg], op2.shift.amount, op2.shift.shift_type, checks)
    ELSE shift(rf[op2.reg], rf[op2.shift.shift_reg].lo % 256,
               op2.shift.shift_type, checks)

\* the operands are i32; overflowing_sub and overflowing_add return the
\* wrapped result and whether the signed operation overflowed; the `-` of
\* Cmp panics on signed overflow where overflow is checked
perform_processing_operation(op1, op2, opcode, checks) ==
    CASE opcode \in {"And", "Tst"} ->
            [val |-> AndW(op1, op2), carry |-> FALSE, panic |-> FALSE]
      [] opcode \in {"Eor", "Teq"} ->
            [val |-> XorW(op1, op2), carry |-> FALSE, panic |-> FALSE]
      [] opcode = "Sub" ->
            [val |-> SubW(op1, op2), carry |-> SubOverflowsI(op1, op2),
             panic |-> FALSE]
      [] opcode = "Rsb" ->
            [val |-> SubW(op2, op1), carry |-> SubOverflowsI(op2, op1),
             panic |-> FALSE]
      [] opcode = "Add" ->
            [val |-> AddW(op1, op2), carry |-> AddOverflowsI(op1, op2),
             panic |-> FALSE]
      [] opcode = "Cmp" ->
            [val |-> SubW(op1, op2), carry |-> ToInt(op1) >= ToInt(op2),
             panic |-> checks /\ SubOverflowsI(op1, op2)]
      [] opcode = "Orr" ->
            [val |-> OrW(op1, op2), carry |-> FALSE, panic |-> FALSE]
      [] opcode = "Mov" ->
            [val |-> op2, carry |-> FALSE, panic |-> FALSE]

\* a processing instruction that leaves the state as it is
skip_processing(st, instr, checks) == Done(st)

execute_processing(st, instr, checks) ==
    LET rf == st.register_file
        op1 == rf[instr.rn]
        bs == barrel_shifter(instr.operand2, rf, checks)
        res == perform_processing_operation(op1, bs.val, instr.opcode, checks)
        saved == IF instr.opcode \in {"Cmp", "Teq", "Tst"} THEN rf
                 ELSE [rf EXCEPT ![instr.rd] = res.val]
        c_flag == ((~bs.carry) /\ res.carry) \/ res.carry
        flagged == set_flags(
                     set_flags(
                       set_flags(saved, CpsrFlag.C, c_flag),
                       CpsrFlag.N, extract_bit(res.val, CpsrFlag.N)),
                     CpsrFlag.Z, res.val = ZeroWord)
    IN  IF bs.panic \/ res.panic THEN Panic(st)
        ELSE Done([st EXCEPT !.register_file =
                      IF instr.set_cond THEN flagged ELSE saved])

\* `*` and `+=` on u32 panic on overflow where overflow is checked
execute_multiply(st, instr, checks) ==
    LET rf == st.register_file
        product == MulW(rf[instr.rm], rf[instr.rs])
        result == IF instr.accumulate THEN AddW(product.val, rf[instr.rn])
                  ELSE product.val
        overflow == product.overflow
                    \/ (instr.accumulate
                        /\ AddOverflowsU(product.val, rf[instr.rn]))
        saved == [rf EXCEPT ![instr.rd] = result]
        flagged == set_flags(
                     set_flags(saved, CpsrFlag.N,
                               extract_bit(result, CpsrFlag.N)),
                     CpsrFlag.Z, result = ZeroWord)
    IN  IF checks /\ overflow THEN Panic(st)
        ELSE Done([st EXCEPT !.register_file =
                      IF instr.set_cond THEN flagged ELSE saved])

execute_transfer(st, instr, checks) ==
    LET rf == st.register_file
        \* an immediate offset is read as the 12-bit number rotate:imm
        shifted == barrel_shifter(instr.offset, rf, checks)
        interpreted_offset ==
            IF instr.offset.kind = "ConstantShift"
            THEN OrW(Shl(instr.offset.shift_amt, IMM_SHIFT.pos),
                     FromNat(instr.offset.to_shift))
            ELSE shifted.val
        shift_panic == instr.offset.kind # "ConstantShift" /\ shifted.panic
        signed_offset == IF instr.up_bit THEN interpreted_offset
                         ELSE NegW(interpreted_offset)
        neg_panic == checks /\ ~instr.up_bit /\ interpreted_offset = MinInt
        base == rf[instr.rn]
        mem_address == IF instr.is_preindexed THEN AddW(base, signed_offset)
                       ELSE base
        pre_panic == instr.is_preindexed
                     /\ (neg_panic
                         \/ (checks /\ AddOverflowsI(base, signed_offset)))
        in_memory == mem_address.hi = 0
        slice_panic == in_memory /\ ~SliceInRange(mem_address.lo)
        accessed ==
            IF in_memory
            THEN IF instr.load
                 THEN [st EXCEPT !.register_file[instr.rd] =
                          read_memory(st.memory, mem_address.lo)]
                 ELSE [st EXCEPT !.memory =
                          write_memory(st.memory, mem_address.lo,
                                       rf[instr.rd])]
            ELSE IF gpio_accessed(mem_address)
            THEN LET shown == [st EXCEPT !.printed =
                                 Append(@, print_gpio_message(mem_address))]
                 IN  IF instr.load
                     THEN [shown EXCEPT !.register_file[instr.rd] =
                              mem_address]
                     ELSE shown
            ELSE [st EXCEPT !.printed =
                     Append(@, "Error: Out of bounds memory access")]
        rn_val == accessed.register_file[instr.rn]
        post_panic == ~instr.is_preindexed
                      /\ (neg_panic
                          \/ (checks /\ AddOverflowsU(rn_val, signed_offset)))
        indexed == IF instr.is_preindexed THEN accessed
                   ELSE [accessed EXCEPT !.register_file[instr.rn] =
                            AddW(rn_val, signed_offset)]
    IN  IF shift_panic \/ pre_panic \/ slice_panic \/ post_panic
        THEN Panic(st)
        ELSE Done(indexed)

\* a conversion that does not extend the sign
unsigned_24(num) == num

\* signed_24_to_32(num): bit 23 of num set => num | 0xff000000
signed_24_to_32(num) ==
    IF (num \div 2^23) % 2 = 1 THEN (num % 2^24) - 2^24 ELSE num
\* a flush that leaves both slots as they are
keep_pipeline(pl) == pl

Flush(pl) == [fetched |-> None, decoded |-> None]

\* the offset is the decoder's, 0 .. 2^24 - 1, so offset << 2 is offset * 4
execute_branch(st, instr, checks) ==
    LET pc == st.register_file[PC]
        delta == FromInt(signed_24_to_32(instr.offset * 4))
    IN  IF checks /\ AddOverflowsI(pc, delta) THEN Panic(st)
        ELSE Done([st EXCEPT !.register_file[PC] = AddW(pc, delta),
                             !.pipeline = Flush(@)])

\* an execute that does not test the condition
execute_unconditionally(st, instr, checks) ==
    CASE instr.instruction.type = "Processing" ->
            execute_processing(st, instr.instruction, checks)
      [] instr.instruction.type = "Multiply" ->
            execute_multiply(st, instr.instruction, checks)
      [] instr.instruction.type = "Transfer" ->
            execute_transfer(st, instr.instruction, checks)
      [] instr.instruction.type = "Branch" ->
            execute_branch(st, instr.instruction, checks)
      [] instr.instruction.type = "Halt" -> Panic(st)

execute(st, instr, checks) ==
    IF ~satisfies_cpsr(instr.cond, st.register_file[CPSR])
    THEN Done(st)
    ELSE CASE instr.instruction.type = "Processing" ->
                execute_processing(st, instr.instruction, checks)
           [] instr.instruction.type = "Multiply" ->
                execute_multiply(st, instr.instruction, checks)
           [] instr.instruction.type = "Transfer" ->
                execute_transfer(st, instr.instruction, checks)
           [] instr.instruction.type = "Branch" ->
                execute_branch(st, instr.instruction, checks)
           [] instr.instruction.type = "Halt" -> Panic(st)

----------------------------------------------------------------------------
(* emulate/fetch.rs *)

\* PC is advanced first; the read of memory[pc .. pc + 4] panics when the
\* slice is out of range
fetch(st, checks) ==
    LET pc == st.register_file[PC]
        advanced == [st EXCEPT !.register_file[PC] =
                        AddW(pc, FromNat(BYTES_IN_WORD))]
    IN  IF (checks /\ AddOverflowsU(pc, FromNat(BYTES_IN_WORD)))
           \/ pc.hi # 0 \/ ~SliceInRange(pc.lo)
        THEN [status |-> "panic", st |-> st, word |-> ZeroWord]
        ELSE [status |-> "ok", st |-> advanced,
              word |-> read_memory(st.memory, pc.lo)]

----------------------------------------------------------------------------
(* Source lines.  A line is modelled by its tokens: the mnemonic, the       *)
(* registers as the numbers written after `r`, the literals as the value    *)
(* and the sign written, and the shape of the operand.                      *)

LabelLine(name) == [kind |-> "label", name |-> name]
EmptyLine == [kind |-> "empty"]
\* andeq r0,r0,r0
HaltLine == [kind |-> "halt"]
\* #<value> or #-<value>
Expr(value, is_signed) ==
    [kind |-> "expr", value |-> value, is_signed |-> is_signed]
\* <register> or <register>, <shifttype> <#expression | register>
RegOperand(reg, opt_shift) ==
    [kind |-> "reg", reg |-> reg, shift |-> opt_shift]
ShiftByExpr(shift_type, expr) ==
    Some([shift_type |-> shift_type, by |-> expr])
ShiftByReg(shift_type, reg) ==
    Some([shift_type |-> shift_type, by |-> [kind |-> "reg", reg |-> reg]])
\* <opcode> r<regs[1]>,<operand2> or <opcode> r<regs[1]>,r<regs[2]>,<operand2>
ProcessingLine(opcode, regs, operand2) ==
    [kind |-> "processing", opcode |-> opcode, regs |-> regs,
     operand2 |-> operand2]
\* mul Rd,Rm,Rs or mla Rd,Rm,Rs,Rn
MultiplyLine(mnemonic, rd, rm, rs, opt_rn) ==
    [kind |-> "multiply", mnemonic |-> mnemonic, rd |-> rd, rm |-> rm,
     rs |-> rs, opt_rn |-> opt_rn]
\* ldr Rd,=<value> or ldr Rd,=-<value>
LdrEqLine(rd, value, is_signed) ==
    [kind |-> "ldr_eq", rd |-> rd, value |-> value, is_signed |-> is_signed]
\* ldr/str Rd,[Rn],<operand2> ("post"), ldr/str Rd,[Rn,<operand2>] ("pre"),
\* ldr/str Rd,[Rn] ("plain")
TransferLine(load, rd, rn, mode, operand2) ==
    [kind |-> "transfer", load |-> load, rd |-> rd, rn |-> rn, mode |-> mode,
     operand2 |-> operand2]
\* b<cond> <decimal address> or b<cond> <label>
BranchLine(opt_cond, target) ==
    [kind |-> "branch", opt_cond |-> opt_cond, target |-> target]
ToAddress(n) == [kind |-> "address", value |-> n]
ToLabel(name) == [kind |-> "label", name |-> name]
\* lsl Rn,<#expression>
LslLine(rn, expr) == [kind |-> "lsl", rn |-> rn, expr |-> expr]

----------------------------------------------------------------------------
(* assemble/parse.rs.  A parser yields Ok(value), Err(reason) when the line *)
(* does not parse, or Abort when the parser panics.                         *)

Abort == [ok |-> FALSE, err |-> "panic"]

parse_reg(r) ==
    IF r \in 0 .. NUM_GENERAL_REGS - 1 \/ r = PC \/ r = CPSR
    THEN Ok(r) ELSE Err("parsing register")

\* the loop of expression_to_operand2: while the two low bits are zero,
\* shift right by two and count a rotation down
RECURSIVE RotateLoop(_, _)
RotateLoop(value, rotate_count) ==
    IF extract_bits(value, 0, 2) = 0
    THEN RotateLoop(ShrW(value, 2), rotate_count - 1)
    ELSE [value |-> value, rotate_count |-> rotate_count]

expression_to_operand2(value) ==
    LET start == [value |-> value, rotate_count |-> 16]
        looped == IF value.hi > 0 \/ value.lo > mask(IMM_VALUE.size)
                  THEN RotateLoop(value, 16) ELSE start
        rotate_count == looped.rotate_count % 16
    IN  IF looped.value.hi > 0 \/ looped.value.lo > 255
        THEN Err("TryFromIntError")
        ELSE Ok(Immediate(looped.value.lo, rotate_count))

\* An operand parser yields [op2, is_signed, leftover]: the operand, whether
\* the literal was written with a minus, and whether it left text of the
\* operand unread (no parser of a line checks that the line was read to its
\* end).
parse_operand2_constant(expr) ==
    LET op2 == expression_to_operand2(expr.value)
    IN  IF op2.ok
        THEN Ok([op2 |-> op2.val, is_signed |-> expr.is_signed,
                 leftover |-> FALSE])
        ELSE Err("Operand2Constant")

\* the constant amount is converted to u8 with unwrap()
parse_shift(sh) ==
    IF sh.by.kind = "expr"
    THEN IF sh.by.value.hi > 0 \/ sh.by.value.lo > 255
         THEN Abort
         ELSE Ok([kind |-> "ConstantShift", shift_type |-> sh.shift_type,
                  amount |-> sh.by.value.lo])
    ELSE IF parse_reg(sh.by.reg).ok
    THEN Ok([kind |-> "RegisterShift", shift_type |-> sh.shift_type,
             shift_reg |-> sh.by.reg])
    ELSE Err("parsing shift")

\* the shift is optional: a shift that does not parse is left unread and
\* the register is taken unshifted
parse_operand2_shifted(op) ==
    IF ~parse_reg(op.reg).ok THEN Err("parsing operand2 shifted")
    ELSE IF ~op.shift.some
    THEN Ok([op2 |-> ConstantShiftedReg(op.reg, "Lsl", 0),
             is_signed |-> FALSE, leftover |-> FALSE])
    ELSE LET parsed == parse_shift(op.shift.val)
         IN  IF parsed = Abort THEN Abort
             ELSE IF ~parsed.ok
             THEN Ok([op2 |-> ConstantShiftedReg(op.reg, "Lsl", 0),
                      is_signed |-> FALSE, leftover |-> TRUE])
             ELSE Ok([op2 |-> [kind |-> "ShiftedReg", reg |-> op.reg,
                               shift |-> parsed.val],
                      is_signed |-> FALSE, leftover |-> FALSE])

parse_operand2(op) ==
    IF op.kind = "expr" THEN parse_operand2_constant(op)
    ELSE parse_operand2_shifted(op)

ProcessingResult(opcode, r1, r2, operand2, set_cond) ==
    LET rd == IF opcode = "Mov" THEN r2 ELSE r1
        rn == IF opcode = "Mov" THEN r1 ELSE r2
    IN  Ok([instr |-> ConditionalInstruction(
                        Processing(opcode, opcode # "Mov" /\ set_cond,
                                   rn, rd, operand2), "Al"),
            data |-> None])

\* The form with two registers is tried first.  When its operand does not
\* parse, the form with one register is tried on the same text, and reads
\* the second register as its operand.
parse_processing(line) ==
    LET two == Len(line.regs) = 2
        op2 == parse_operand2(line.operand2)
        second == parse_operand2_shifted(RegOperand(line.regs[2], None))
    IN  IF ~parse_reg(line.regs[1]).ok
        THEN Err("parsing processing instruction")
        ELSE IF two
        THEN IF ~parse_reg(line.regs[2]).ok
             THEN Err("parsing processing instruction")
             ELSE IF op2.ok
             THEN ProcessingResult(line.opcode, line.regs[1], line.regs[2],
                                   op2.val.op2, FALSE)
             ELSE IF op2 = Abort THEN Abort
             ELSE ProcessingResult(line.opcode, 0, line.regs[1],
                                   second.val.op2, TRUE)
        ELSE IF op2.ok
        THEN ProcessingResult(line.opcode, 0, line.regs[1], op2.val.op2, TRUE)
        ELSE op2

\* rn is optional: an rn that does not parse is left unread
parse_multiply(line) ==
    LET has_rn == line.opt_rn.some /\ parse_reg(line.opt_rn.val).ok
    IN  IF \E r \in {line.rd, line.rm, line.rs} : ~parse_reg(r).ok
        THEN Err("parsing multiply instruction")
        ELSE IF line.mnemonic = "mla" /\ has_rn
        THEN Ok([instr |-> ConditionalInstruction(
                             Multiply(TRUE, FALSE, line.rd, line.opt_rn.val,
                                      line.rs, line.rm), "Al"),
                 data |-> None])
        ELSE IF line.mnemonic = "mul" /\ ~has_rn
        THEN Ok([instr |-> ConditionalInstruction(
                             Multiply(FALSE, FALSE, line.rd, 0,
                                      line.rs, line.rm), "Al"),
                 data |-> None])
        ELSE Abort

\* the sign written before the literal is dropped; the offset to the pool
\* word is an i32 cast to u32 and converted with unwrap()
parse_transfer_immediate(line, current_address, next_free_address) ==
    LET expression == line.value
        offset == next_free_address - (current_address + PIPELINE_OFFSET)
        small == expression_to_operand2(expression)
        far == expression_to_operand2(FromInt(offset))
    IN  IF ~parse_reg(line.rd).ok THEN Err("parsing immediate transfer")
        ELSE IF expression.hi = 0 /\ expression.lo <= mask(IMM_VALUE.size)
        THEN Ok([instr |-> ConditionalInstruction(
                             Processing("Mov", FALSE, 0, line.rd, small.val),
                             "Al"),
                 data |-> None])
        ELSE IF ~far.ok THEN Abort
        ELSE Ok([instr |-> ConditionalInstruction(
                             Transfer(TRUE, TRUE, TRUE, PC, line.rd, far.val),
                             "Al"),
                 data |-> Some(expression)])

TransferResult(line, is_preindexed, operand2, is_signed) ==
    Ok([instr |-> ConditionalInstruction(
                    Transfer(is_preindexed, ~is_signed, line.load,
                             line.rn, line.rd, operand2), "Al"),
        data |-> None])

\* The three forms are tried in the order post-indexed, pre-indexed, plain.
\* A post-indexed line whose operand does not parse is read as the plain
\* form; a pre-indexed operand must be followed by the closing bracket.
parse_transfer_indexed(line) ==
    LET op2 == parse_operand2(line.operand2)
    IN  IF ~parse_reg(line.rd).ok \/ ~parse_reg(line.rn).ok
        THEN Err("parsing indexed transfer")
        ELSE IF line.mode = "plain"
        THEN TransferResult(line, TRUE, Immediate(0, 0), FALSE)
        ELSE IF op2 = Abort THEN Abort
        ELSE IF line.mode = "post"
        THEN IF op2.ok
             THEN TransferResult(line, FALSE, op2.val.op2, op2.val.is_signed)
             ELSE TransferResult(line, TRUE, Immediate(0, 0), FALSE)
        ELSE IF op2.ok /\ ~op2.val.leftover
        THEN TransferResult(line, TRUE, op2.val.op2, op2.val.is_signed)
        ELSE Err("parsing indexed transfer")

\* the target is a non-negative decimal address or a label of the table
parse_branch(line, current_address, symbol_table) ==
    LET known == line.target.kind = "address"
                 \/ line.target.name \in DOMAIN symbol_table
        addr == IF line.target.kind = "address" THEN line.target.value
                ELSE symbol_table[line.target.name]
        cond == IF line.opt_cond.some THEN line.opt_cond.val ELSE "Al"
        offset == (addr - current_address - PIPELINE_OFFSET) \div 4
    IN  IF ~known \/ (line.target.kind = "address" /\ line.target.value < 0)
        THEN Err("parsing branch instruction")
        ELSE Ok([instr |-> ConditionalInstruction(Branch(offset), cond),
                 data |-> None])

parse_halt == Ok([instr |-> ConditionalInstruction(Halt, "Eq"),
                  data |-> None])

\* lsl Rn,<#expression> is rewritten to mov Rn,Rn, lsl <#expression> and
\* parsed again with expect()
parse_lsl(line) ==
    LET desugared == ProcessingLine("Mov", <<line.rn>>,
                        RegOperand(line.rn, ShiftByExpr("Lsl", line.expr)))
        parsed == parse_processing(desugared)
    IN  IF ~parse_reg(line.rn).ok \/ ~parse_operand2_constant(line.expr).ok
        THEN Err("parsing lsl instruction operands")
        ELSE IF ~parsed.ok THEN Abort
        ELSE parsed

parse_asm(line, current_address, next_free_address, symbol_table) ==
    CASE line.kind = "halt" -> parse_halt
      [] line.kind = "lsl" -> parse_lsl(line)
      [] line.kind = "processing" -> parse_processing(line)
      [] line.kind = "ldr_eq" ->
            parse_transfer_immediate(line, current_address, next_free_address)
      [] line.kind = "transfer" -> parse_transfer_indexed(line)
      [] line.kind = "multiply" -> parse_multiply(line)
      [] line.kind = "branch" ->
            parse_branch(line, current_address, symbol_table)

----------------------------------------------------------------------------
(* assemble/mod.rs *)

\* the lines that are neither empty nor labels, in order
RECURSIVE InstructionLines(_)
InstructionLines(raw) ==
    IF raw = <<>> THEN <<>>
    ELSE IF Head(raw).kind \in {"empty", "label"}
    THEN InstructionLines(Tail(raw))
    ELSE <<Head(raw)>> \o InstructionLines(Tail(raw))

\* a label maps to the address of the next instruction line; a label
\* defined twice keeps the later address
LabelAddress(raw, i) ==
    BYTES_IN_WORD * Len(InstructionLines(SubSeq(raw, 1, i)))

extract_labels_and_instructions(raw) ==
    LET labels == {i \in 1 .. Len(raw) : raw[i].kind = "label"}
        names == {raw[i].name : i \in labels}
        last(name) == CHOOSE i \in labels :
                         /\ raw[i].name = name
                         /\ \A j \in labels : raw[j].name = name => j <= i
    IN  [symbol_table |-> [name \in names |-> LabelAddress(raw, last(name))],
         instructions |-> InstructionLines(raw)]

RECURSIVE Flatten(_)
Flatten(seqs) ==
    IF seqs = <<>> THEN <<>> ELSE Head(seqs) \o Flatten(Tail(seqs))

----------------------------------------------------------------------------
(* The assembler as a state machine: assemble::run *)

NoMemory == [a \in {} |-> 0]
ZeroRegisters == [r \in Registers |-> ZeroWord]
NoOrigin == [fetched |-> None, decoded |-> None]
IdleAsm == [symbol_table |-> [n \in {} |-> 0], instructions |-> <<>>,
            assembled |-> <<>>, additional |-> <<>>,
            next_free_address |-> 0, parsed |-> 0]
IdleCodec == [at |-> "idle"]
NoCall == [fn |-> "none"]

\* first pass: the symbol table and the instruction lines
FirstPass ==
    /\ stage = "source"
    /\ LET first == extract_labels_and_instructions(source)
       IN  asm' = [symbol_table |-> first.symbol_table,
                   instructions |-> first.instructions,
                   assembled |-> <<>>, additional |-> <<>>,
                   next_free_address |->
                       Len(first.instructions) * BYTES_IN_WORD,
                   parsed |-> 0]
    /\ stage' = "second_pass"
    /\ UNCHANGED <<source, image, memory, register_file, pipeline, origin,
                   printed, overflow_checks, codec,
                   call>>

\* one iteration of the second pass: parse the line, encode it, append the
\* word to the code buffer and the data, if any, to the pool buffer
ParseLine ==
    /\ stage = "second_pass"
    /\ asm.parsed < Len(asm.instructions)
    /\ LET Parsed(got) ==
               IF got.ok
               THEN /\ asm' = [asm EXCEPT
                         !.assembled =
                             @ \o to_le_bytes(encode(got.val.instr)),
                         !.additional =
                             IF got.val.data.some
                             THEN @ \o to_le_bytes(got.val.data.val) ELSE @,
                         !.next_free_address =
                             IF got.val.data.some
                             THEN @ + BYTES_IN_WORD ELSE @,
                         !.parsed = @ + 1]
                    /\ stage' = stage
               ELSE /\ asm' = asm
                    /\ stage' = IF got = Abort THEN "assembler_panicked"
                                ELSE "assembler_failed"
       IN  Parsed(parse_asm(asm.instructions[asm.parsed + 1],
                            asm.parsed * BYTES_IN_WORD,
                            asm.next_free_address, asm.symbol_table))
    /\ UNCHANGED <<source, image, memory, register_file, pipeline, origin,
                   printed, overflow_checks, codec,
                   call>>

\* the code buffer followed by the pool buffer is written to the file
WriteOutput ==
    /\ stage = "second_pass"
    /\ asm.parsed = Len(asm.instructions)
    /\ image' = asm.assembled \o asm.additional
    /\ stage' = "assembled"
    /\ UNCHANGED <<source, asm, memory, register_file, pipeline, origin,
                   printed, overflow_checks, codec,
                   call>>

----------------------------------------------------------------------------
(* The emulator as a state machine: emulate::run and run_pipeline *)

EmulatorState == [memory |-> memory, register_file |-> register_file,
                  pipeline |-> pipeline, printed |-> printed]

\* emulate::run: the file is read and loaded into a new emulator
Load ==
    /\ stage = "assembled"
    /\ memory' = with_memory(image)
    /\ register_file' = ZeroRegisters
    /\ pipeline' = NewPipeline
    /\ origin' = NoOrigin
    /\ stage' = "running"
    /\ UNCHANGED <<source, asm, image, printed, overflow_checks, codec,
                   call>>

\* a driver that never finds Halt in the decoded slot
NeverHalt(slot) == FALSE

IsHalt(slot) == slot.some /\ slot.val.instruction.type = "Halt"

\* the loop finds Halt in the decoded slot and returns
HaltStep ==
    /\ stage = "running"
    /\ IsHalt(pipeline.decoded)
    /\ stage' = "halted"
    /\ UNCHANGED <<source, asm, image, memory, register_file, pipeline,
                   origin, printed, overflow_checks, codec,
                   call>>

\* one iteration of the loop: execute, decode, fetch.  The result is the
\* stage the emulator is in afterwards, its state, and the addresses the
\* words in the pipeline came from
run_pipeline(st, org, checks) ==
    LET Fetched(st2, org2, fetched) ==
            IF fetched.status = "panic"
            THEN [stage |-> "emulator_panicked", st |-> st2, origin |-> org2]
            ELSE [stage |-> "running",
                  st |-> [fetched.st EXCEPT
                             !.pipeline.fetched = Some(fetched.word)],
                  origin |-> [org2 EXCEPT
                                 !.fetched = Some(st2.register_file[PC])]]
        Fetch(st2, org2) == Fetched(st2, org2, fetch(st2, checks))
        Decoded(st1, org1, decoded) ==
            IF ~decoded.ok
            THEN [stage |-> "emulator_failed", st |-> st1, origin |-> org1]
            ELSE Fetch([st1 EXCEPT !.pipeline.decoded = Some(decoded.val)],
                       [org1 EXCEPT !.decoded = org1.fetched])
        Decode(st1, org1) ==
            IF st1.pipeline.fetched.some
            THEN Decoded(st1, org1, decode(st1.pipeline.fetched.val))
            ELSE Fetch(st1, org1)
        Executed(executed) ==
            IF executed.status = "panic"
            THEN [stage |-> "emulator_panicked", st |-> st, origin |-> org]
            ELSE Decode(executed.st,
                        IF executed.st.pipeline.decoded.some THEN org
                        ELSE NoOrigin)
    IN  IF st.pipeline.decoded.some
        THEN Executed(execute(st, st.pipeline.decoded.val, checks))
        ELSE Decode(st, org)

Cycle ==
    /\ stage = "running"
    /\ ~IsHalt(pipeline.decoded)
    /\ Len(printed) < MaxPrinted
    /\ LET Ran(next) ==
               /\ stage' = next.stage
               /\ memory' = next.st.memory
               /\ register_file' = next.st.register_file
               /\ pipeline' = next.st.pipeline
               /\ printed' = next.st.printed
               /\ origin' = next.origin
       IN  Ran(run_pipeline(EmulatorState, origin, overflow_checks))
    /\ UNCHANGED <<source, asm, image, overflow_checks, codec,
                   call>>

----------------------------------------------------------------------------
(* The sources that are assembled and emulated *)

Hex(hi, lo) == W32(hi, lo)
MovLine(rd, n) == ProcessingLine("Mov", <<rd>>, Expr(FromNat(n), FALSE))
Unused == Expr(ZeroWord, FALSE)

\* the scenarios of the specification
S1 == <<MovLine(1, 1), HaltLine>>
S2 == <<MovLine(1, 2), MovLine(2, 3),
        ProcessingLine("Add", <<3, 1>>, RegOperand(2, None)), HaltLine>>
S3 == <<MovLine(1, 3), MovLine(2, 4), MovLine(4, 5),
        MultiplyLine("mla", 3, 1, 2, Some(4)), HaltLine>>
S4 == <<LdrEqLine(2, Hex(8224, 32), FALSE), HaltLine>>
S5 == <<MovLine(1, 0), LabelLine("loop"),
        ProcessingLine("Add", <<1, 1>>, Expr(FromNat(1), FALSE)),
        ProcessingLine("Cmp", <<1>>, Expr(FromNat(3), FALSE)),
        BranchLine(Some("Lt"), ToLabel("loop")), HaltLine>>
S6 == <<LdrEqLine(0, Hex(8224, 0), FALSE), MovLine(1, 1),
        TransferLine(FALSE, 1, 0, "plain", Unused), HaltLine>>
Scenarios == {S1, S2, S3, S4, S5, S6}

\* cmp r0,#0 sets Z, so that beq fires and bne does not; mov r15,#12 writes
\* the PC with an instruction other than a branch
CmpOpener == ProcessingLine("Cmp", <<0>>, Expr(ZeroWord, FALSE))
PcOpener == MovLine(PC, 12)
Openers == {CmpOpener, PcOpener}
BranchConds == {None, Some("Eq"), Some("Ne")}

\* n instruction lines and a halt line; the line at position at is
\* `L1:` `b<cond> L2`, and `L2:` stands before position to, which may be
\* the position after the halt line
BranchSource(n, at, to, cond, opener) ==
    LET instr(q) == IF q = n + 2 THEN <<>>
                    ELSE IF q = n + 1 THEN <<HaltLine>>
                    ELSE IF q = at THEN <<BranchLine(cond, ToLabel("L2"))>>
                    ELSE IF q = 1 THEN <<opener>>
                    ELSE <<MovLine(q, q)>>
        labels(q) == (IF q = at THEN <<LabelLine("L1")>> ELSE <<>>)
                     \o (IF q = to THEN <<LabelLine("L2")>> ELSE <<>>)
    IN  Flatten([q \in 1 .. n + 2 |-> labels(q) \o instr(q)])

BranchSources ==
    UNION {{BranchSource(n, at, to, cond, opener) :
               at \in 2 .. n, to \in 1 .. n + 2, cond \in BranchConds,
               opener \in Openers} : n \in {MaxLines - 1, MaxLines}}

\* lines that load a literal: `ldr r<q>,=<more than 0xFF>` puts a word in
\* the pool, `ldr r<q>,=<at most 0xFF>` becomes a mov
PoolLine(q, what) ==
    CASE what = "pool" -> LdrEqLine(q, Hex(8224, q), FALSE)
      [] what = "small" -> LdrEqLine(q, FromNat(q), FALSE)
      [] what = "mov" -> MovLine(q, q)

\* an empty line, the lines, a label, and a halt line or none
PoolSource(whats, halts) ==
    <<EmptyLine>> \o [q \in 1 .. Len(whats) |-> PoolLine(q, whats[q])]
    \o <<LabelLine("end")>> \o (IF halts THEN <<HaltLine>> ELSE <<>>)

PoolSources ==
    {PoolSource(whats, halts) :
        whats \in UNION {[1 .. n -> {"pool", "small", "mov"}] :
                            n \in 1 .. MaxPoolLines},
        halts \in BOOLEAN}

\* a literal load followed by enough lines to put the pool word more than
\* 255 bytes ahead
FarSource(n) ==
    <<LdrEqLine(2, Hex(8224, 32), FALSE)>> \o [q \in 1 .. n |-> MovLine(1, 1)]
    \o <<HaltLine>>

\* a branch to the last word of memory, a branch to an unknown label, an
\* immediate that is no rotated byte, and a compare that sets N
OtherSources ==
    {<<BranchLine(None, ToAddress(MEMORY_SIZE - BYTES_IN_WORD)), HaltLine>>,
     <<BranchLine(None, ToLabel("nowhere")), HaltLine>>,
     <<MovLine(1, 257), HaltLine>>,
     <<MovLine(1, 1),
       ProcessingLine("Cmp", <<1>>, Expr(FromNat(3), FALSE)), HaltLine>>,
     <<MovLine(PC, 16), MovLine(1, 1), MovLine(2, 2), MovLine(3, 3),
       MovLine(4, 4), HaltLine>>}

\* r0 is set to 0x30000, an address outside memory that is no GPIO
\* address, and r1 is loaded from or stored to [r0], [r0,#4], [r0,#-4],
\* [r0],#4 or [r0],#-4
OutOfBoundsSource(load, mode, is_signed) ==
    <<LdrEqLine(0, W32(3, 0), FALSE), MovLine(1, 7),
      TransferLine(load, 1, 0, mode, Expr(FromNat(BYTES_IN_WORD), is_signed)),
      HaltLine>>

OutOfBoundsSources ==
    {OutOfBoundsSource(load, mode, is_signed) :
        load \in BOOLEAN, mode \in {"plain", "pre", "post"},
        is_signed \in BOOLEAN}

\* `ldr r1,=-5` and `ldr r1,=-0x30000`
NegativeLiteralSources ==
    {<<LdrEqLine(1, FromNat(5), TRUE), HaltLine>>,
     <<LdrEqLine(1, W32(3, 0), TRUE), HaltLine>>}

\* r0 is set to 0x1000 and r1 is loaded from or stored to [r0], or
\* [r0,#v], [r0,#-v], [r0],#v or [r0],#-v with v = 4 or v = 0x100
TransferSource(load, mode, operand2) ==
    <<MovLine(0, 4096), MovLine(1, 7),
      TransferLine(load, 1, 0, mode, operand2), HaltLine>>

TransferSources ==
    {TransferSource(load, "plain", Unused) : load \in BOOLEAN}
    \cup {TransferSource(load, mode, Expr(FromNat(v), is_signed)) :
             load \in BOOLEAN, mode \in {"pre", "post"},
             v \in {BYTES_IN_WORD, 2^8}, is_signed \in BOOLEAN}

\* r0 is set to one of the last three addresses of memory and r1 is loaded
\* from or stored to [r0]
LastBytesSources ==
    {<<LdrEqLine(0, FromNat(a), FALSE), MovLine(1, 7),
       TransferLine(load, 1, 0, "plain", Unused), HaltLine>> :
        a \in MEMORY_SIZE - BYTES_IN_WORD + 1 .. MEMORY_SIZE - 1,
        load \in BOOLEAN}

\* `mov r16,#1`, `add r3,r16,#1`, `mov r2,r1,lsl #31`,
\* `mov r2,r1,lsl #32`, `mov r2,r1,lsl r16`
WideFieldSources ==
    {<<line, HaltLine>> :
        line \in {MovLine(CPSR, 1),
                  ProcessingLine("Add", <<3, CPSR>>, Expr(FromNat(1), FALSE)),
                  ProcessingLine("Mov", <<2>>,
                      RegOperand(1, ShiftByExpr("Lsl",
                                                Expr(FromNat(31), FALSE)))),
                  ProcessingLine("Mov", <<2>>,
                      RegOperand(1, ShiftByExpr("Lsl",
                                                Expr(FromNat(32), FALSE)))),
                  ProcessingLine("Mov", <<2>>,
                      RegOperand(1, ShiftByReg("Lsl", CPSR)))}}

Sources == Scenarios \cup BranchSources \cup PoolSources
           \cup {FarSource(FarLines)} \cup OtherSources
           \cup OutOfBoundsSources \cup NegativeLiteralSources
           \cup TransferSources \cup LastBytesSources \cup WideFieldSources

----------------------------------------------------------------------------
(* The specification of the assembler followed by the emulator *)

Init ==
    /\ stage = "source"
    /\ source \in Sources
    /\ asm = IdleAsm
    /\ image = <<>>
    /\ memory = NoMemory
    /\ register_file = ZeroRegisters
    /\ pipeline = NewPipeline
    /\ origin = NoOrigin
    /\ printed = <<>>
    /\ overflow_checks \in BOOLEAN
    /\ codec = IdleCodec
    /\ call = NoCall

Next ==
    \/ FirstPass
    \/ ParseLine
    \/ WriteOutput
    \/ Load
    \/ HaltStep
    \/ Cycle

Spec == Init /\ [][Next]_vars

\* the driver's loop goes on to its next iteration, where it finds Halt
FairSpec == Spec /\ WF_vars(HaltStep)

----------------------------------------------------------------------------
(* The encoder followed by the decoder, on instructions of the model *)

\* the least and the greatest value of each field, and values between them
CodecRegs == {0, 1, mask(RN.size)}
CodecImmediates ==
    {Immediate(v, r) : v \in {0, 1, 144, 159, mask(IMM_VALUE.size)},
                       r \in {0, 1, mask(IMM_SHIFT.size)}}
CodecShifts ==
    {ConstantShiftedReg(r, t, n) :
        r \in CodecRegs, t \in ShiftTypes, n \in {0, mask(CONST_SHIFT.size)}}
    \cup {RegisterShiftedReg(r, t, rs) :
        r \in CodecRegs, t \in ShiftTypes, rs \in CodecRegs}
CodecOperands == CodecImmediates \cup CodecShifts
CodecOffsets == {-(2^23), -4, -1, 0, 1, 2^23 - 1}

CodecInstructions ==
    {ConditionalInstruction(i, c) :
        i \in {Processing(op, s, rn, rd, op2) :
                  op \in ProcessingOpcodes, s \in BOOLEAN, rn \in CodecRegs,
                  rd \in CodecRegs, op2 \in CodecOperands}
              \cup {Multiply(a, s, rd, rn, rs, rm) :
                  a \in BOOLEAN, s \in BOOLEAN, rd \in CodecRegs,
                  rn \in CodecRegs, rs \in CodecRegs, rm \in CodecRegs}
              \cup {Transfer(p, u, l, rn, rd, op2) :
                  p \in BOOLEAN, u \in BOOLEAN, l \in BOOLEAN,
                  rn \in CodecRegs, rd \in CodecRegs, op2 \in CodecOperands}
              \cup {Branch(o) : o \in CodecOffsets}
              \cup {Halt},
        c \in ConditionCodes}

InitCodec ==
    /\ stage = "codec"
    /\ codec \in {[at |-> "instruction", instruction |-> i] :
                     i \in CodecInstructions}
    /\ source = <<>>
    /\ asm = IdleAsm
    /\ image = <<>>
    /\ memory = NoMemory
    /\ register_file = ZeroRegisters
    /\ pipeline = NewPipeline
    /\ origin = NoOrigin
    /\ printed = <<>>
    /\ overflow_checks = FALSE
    /\ call = NoCall

NotCodec == <<stage, source, asm, image, memory, register_file, pipeline,
              origin, printed, overflow_checks, call>>

Encode ==
    /\ codec.at = "instruction"
    /\ codec' = [at |-> "word", instruction |-> codec.instruction,
                 word |-> encode(codec.instruction)]
    /\ UNCHANGED NotCodec

Decode ==
    /\ codec.at = "word"
    /\ codec' = [at |-> "decoded", instruction |-> codec.instruction,
                 word |-> codec.word, result |-> decode(codec.word)]
    /\ UNCHANGED NotCodec

NextCodec ==
    \/ Encode
    \/ Decode

SpecCodec == InitCodec /\ [][NextCodec]_vars

----------------------------------------------------------------------------
(* C1: for every instruction of the model, of any condition code,          *)
(* decode(encode(I)) succeeds and equals I.                                *)

C1_RoundTrip ==
    codec.at = "decoded" => codec.result = Ok(codec.instruction)

----------------------------------------------------------------------------
(* C2: whenever the driver executes the instruction whose word was fetched *)
(* from address a, register 15 holds a + 8 when execute starts.            *)

Executing ==
    stage = "running" /\ pipeline.decoded.some /\ ~IsHalt(pipeline.decoded)

C2_PcPlus8 ==
    Executing =>
        /\ origin.decoded.some
        /\ register_file[PC] =
               AddW(origin.decoded.val, FromNat(PIPELINE_OFFSET))

----------------------------------------------------------------------------
(* C3: a branch located at label L1 that targets label L2 and whose        *)
(* condition fires sets PC to address(L2) when it executes, and the next   *)
(* word fetched is the one at L2; forward and backward.                    *)

\* the instruction line of the source that was assembled to address a
LineAt(a) == asm.instructions[(a.lo \div BYTES_IN_WORD) + 1]

\* the instruction about to execute was fetched from the address of a line
\* `b<cond> <label>`, and its condition fires
TakenLabelBranch ==
    /\ Executing
    /\ origin.decoded.some
    /\ origin.decoded.val.hi = 0
    /\ origin.decoded.val.lo < BYTES_IN_WORD * Len(asm.instructions)
    /\ LineAt(origin.decoded.val).kind = "branch"
    /\ LineAt(origin.decoded.val).target.kind = "label"
    /\ pipeline.decoded.val.instruction.type = "Branch"
    /\ satisfies_cpsr(pipeline.decoded.val.cond, register_file[CPSR])

TargetOfBranch ==
    FromNat(asm.symbol_table[LineAt(origin.decoded.val).target.name])

C3_BranchRoundTrip ==
    [][TakenLabelBranch =>
          /\ execute(EmulatorState, pipeline.decoded.val,
                     overflow_checks).st.register_file[PC] = TargetOfBranch
          /\ stage' = "running"
          /\ ~pipeline'.decoded.some
          /\ origin'.fetched = Some(TargetOfBranch)]_vars

----------------------------------------------------------------------------
(* C4: once Halt occupies the decoded slot the driver returns success at   *)
(* the start of the next cycle, without executing anything and without a   *)
(* change to registers, memory or output, whatever the CPSR flags are; so  *)
(* a program whose instruction stream reaches the halt word terminates.    *)

HaltDecoded ==
    /\ stage = "running"
    /\ pipeline.decoded = Some(ConditionalInstruction(Halt, "Eq"))

----------------------------------------------------------------------------
(* C5: emulating the image assembled from S1 terminates with R1 = 1,       *)
(* PC = 12 and every other register 0: the halt word at address 4 is       *)
(* decoded in the cycle that fetches the word at address 8.                *)

S1Terminal(pc) ==
    [r \in Registers |-> IF r = 1 THEN FromNat(1)
                         ELSE IF r = PC THEN FromNat(pc)
                         ELSE ZeroWord]

S1Ends == source = S1 /\ stage \in {"halted", "emulator_panicked",
                                    "emulator_failed", "assembler_failed",
                                    "assembler_panicked"}

C5_S1Terminal ==
    S1Ends => stage = "halted" /\ register_file = S1Terminal(12)

\* the statement with the PC of the specification
C5_S1TerminalPc8 ==
    S1Ends => stage = "halted" /\ register_file = S1Terminal(8)

C5_S1Halted == source = S1 /\ stage = "halted"

----------------------------------------------------------------------------
(* What the assembler wrote, and how a run ended *)

Written == stage \in {"assembled", "running", "halted", "emulator_panicked",
                      "emulator_failed"}
Ended == stage \in {"halted", "emulator_panicked", "emulator_failed",
                    "assembler_failed", "assembler_panicked"}
\* the k-th word of the image, k from 0, and the bytes at a byte offset
ImageBytes(offset) == SubSeq(image, offset + 1, offset + BYTES_IN_WORD)
ImageWord(k) == from_le_bytes(ImageBytes(BYTES_IN_WORD * k))
\* the bytes of a word, least significant first
LeBytes(w) == <<w.lo % 256, w.lo \div 256, w.hi % 256, w.hi \div 256>>
\* the 12-bit offset of a transfer word
OffsetField(w) == extract_bits(w, 0, 12)

----------------------------------------------------------------------------
(* C6: assembling S4 emits two code words and one pool word with bytes     *)
(* 20 00 20 20; the transfer has Rn = 15 and offset magnitude 0, as the    *)
(* pool word lies at address 8 = current_address + 8; emulating the image  *)
(* terminates with R2 = 0x20200020.                                        *)

S4LiteralPool(magnitude) ==
    /\ (source = S4 /\ Written) =>
          /\ Len(image) = 3 * BYTES_IN_WORD
          /\ ImageBytes(2 * BYTES_IN_WORD) = <<32, 0, 32, 32>>
          /\ ImageWord(1) = ZeroWord
          /\ decode(ImageWord(0)).ok
          /\ decode(ImageWord(0)).val.instruction.type = "Transfer"
          /\ decode(ImageWord(0)).val.instruction.rn = 15
          /\ decode(ImageWord(0)).val.instruction.rd = 2
          /\ decode(ImageWord(0)).val.instruction.load
          /\ OffsetField(ImageWord(0)) = magnitude
    /\ (source = S4 /\ Ended) =>
          /\ stage = "halted"
          /\ register_file[2] = W32(8224, 32)

C6_S4LiteralPool == S4LiteralPool(0)

\* the statement with the offset magnitude of the specification
C6_S4LiteralPoolOffset4 == S4LiteralPool(4)

C6_S4Halted == source = S4 /\ stage = "halted"

----------------------------------------------------------------------------
(* C7: every line `ldr Rd,=expr` with expr > 0xFF, wherever it sits, is    *)
(* assembled to a PC-relative pre-indexed load whose offset field is the   *)
(* magnitude of next_free_address - (current_address + 8) and whose up bit *)
(* is its sign, and emulating that instruction sets Rd = expr.             *)

PoolLoad(line) ==
    line.kind = "ldr_eq" /\ (line.value.hi > 0 \/ line.value.lo > 255)

Magnitude(i) == IF i < 0 THEN -i ELSE i

\* the line the second pass is about to parse, and the offset to its pool word
ParsingPoolLoad ==
    /\ stage = "second_pass"
    /\ asm.parsed < Len(asm.instructions)
    /\ PoolLoad(asm.instructions[asm.parsed + 1])
PoolOffset ==
    asm.next_free_address - (asm.parsed * BYTES_IN_WORD + PIPELINE_OFFSET)

LastWord(bytes) == from_le_bytes(SubSeq(bytes, Len(bytes) - 3, Len(bytes)))

\* the instruction about to execute is the load of a line `ldr Rd,=expr`
ExecutingPoolLoad ==
    /\ Executing
    /\ origin.decoded.some
    /\ origin.decoded.val.hi = 0
    /\ origin.decoded.val.lo < BYTES_IN_WORD * Len(asm.instructions)
    /\ PoolLoad(LineAt(origin.decoded.val))
    /\ pipeline.decoded.val.instruction.type = "Transfer"

C7_PoolLoadAssembled ==
    [][ParsingPoolLoad =>
          /\ stage' = "second_pass"
          /\ asm'.parsed = asm.parsed + 1
          /\ decode(LastWord(asm'.assembled)).ok
          /\ decode(LastWord(asm'.assembled)).val.instruction.type
                 = "Transfer"
          /\ decode(LastWord(asm'.assembled)).val.instruction.is_preindexed
          /\ decode(LastWord(asm'.assembled)).val.instruction.load
          /\ decode(LastWord(asm'.assembled)).val.instruction.rn = PC
          /\ decode(LastWord(asm'.assembled)).val.instruction.up_bit
                 = (PoolOffset >= 0)
          /\ OffsetField(LastWord(asm'.assembled)) = Magnitude(PoolOffset)]_vars

C7_PoolLoadExecuted ==
    [][ExecutingPoolLoad =>
          register_file'[LineAt(origin.decoded.val).rd]
              = LineAt(origin.decoded.val).value]_vars

C7_PoolLoad == C7_PoolLoadAssembled /\ C7_PoolLoadExecuted

----------------------------------------------------------------------------
(* C8: a source that assembles, with n instruction lines of which p        *)
(* produce a pool word, gives 4 * (n + p) bytes: the n instruction words   *)
(* in source order, least significant byte first, then the p pool words,   *)
(* least significant byte first, in the order of their lines; the k-th     *)
(* pool word is at byte offset 4 * (n + k), the next_free_address passed   *)
(* to the parser for its line; S1 gives 01 10 a0 e3 00 00 00 00.           *)

IsInstructionLine(line) == line.kind \notin {"empty", "label"}
SourceInstructions == SelectSeq(source, IsInstructionLine)
\* the lines among the first k instruction lines that produce a pool word
PoolLinesIn(k) == Len(SelectSeq(SubSeq(SourceInstructions, 1, k), PoolLoad))
\* the byte offset of the pool word of the k-th instruction line
PoolWordOffset(k) ==
    BYTES_IN_WORD * (Len(SourceInstructions) + PoolLinesIn(k - 1))
\* the instruction the k-th instruction line is parsed to
InstructionOf(k) ==
    parse_asm(SourceInstructions[k], BYTES_IN_WORD * (k - 1),
              PoolWordOffset(k), asm.symbol_table).val.instr

C8_OutputLayout ==
    /\ stage = "second_pass" =>
          asm.next_free_address = PoolWordOffset(asm.parsed + 1)
    /\ Written =>
          /\ Len(image) = BYTES_IN_WORD * (Len(SourceInstructions)
                              + PoolLinesIn(Len(SourceInstructions)))
          /\ \A k \in 1 .. Len(SourceInstructions) :
                /\ ImageBytes(BYTES_IN_WORD * (k - 1))
                       = LeBytes(encode(InstructionOf(k)))
                /\ PoolLoad(SourceInstructions[k]) =>
                       ImageBytes(PoolWordOffset(k))
                           = LeBytes(SourceInstructions[k].value)
    /\ (Written /\ source = S1) => image = <<1, 16, 160, 227, 0, 0, 0, 0>>

\* an image with two pool words has been written
C8_TwoPoolWords ==
    /\ Written
    /\ PoolLinesIn(Len(SourceInstructions)) = 2
    /\ Len(SourceInstructions) < Len(source) - 1

----------------------------------------------------------------------------
(* C9: assembling S5 encodes the branch with offset -4 words, the 24-bit   *)
(* field 0xFFFFFC, and emulating the image terminates with R1 = 3 and the  *)
(* Z flag of the CPSR set.                                                 *)

C9_S5BackwardBranch ==
    /\ (source = S5 /\ Written) =>
          /\ parse_asm(S5[5], 12, 20, asm.symbol_table)
                 = Ok([instr |-> ConditionalInstruction(Branch(-4), "Lt"),
                       data |-> None])
          /\ extract_bits(ImageWord(3), 0, 24) = 16777212
          /\ extract_bits(ImageWord(3), 24, 8) = 186
    /\ (source = S5 /\ Ended) =>
          /\ stage = "halted"
          /\ register_file[1] = FromNat(3)
          /\ extract_bit(register_file[CPSR], 30)

C9_S5Halted == source = S5 /\ stage = "halted"

----------------------------------------------------------------------------
(* C10: emulating the image assembled from S6 prints the GPIO message for  *)
(* address 0x20200000 exactly once, when the store executes and not when   *)
(* the load from the literal pool does, writes no byte of memory, and      *)
(* terminates.                                                             *)

\* the store of S6, at address 8, has executed
S6Stored ==
    \/ stage = "halted"
    \/ stage = "running" /\ register_file[PC].lo >= 20

C10_S6GpioWrite ==
    /\ (source = S6 /\ Written /\ stage # "assembled") =>
          /\ memory = with_memory(image)
          /\ \A a \in DOMAIN memory : a < Len(image)
          /\ printed = IF S6Stored
                       THEN <<"One GPIO pin from 0 to 9 has been accessed">>
                       ELSE <<>>
    /\ (source = S6 /\ Ended) => stage = "halted"

C10_S6Halted == source = S6 /\ stage = "halted" /\ Len(printed) = 1

----------------------------------------------------------------------------
(* The functions of the assembler and the emulator called on their own:    *)
(* an operand-2 immediate on its way from the literal to the barrel        *)
(* shifter, and single calls of satisfies_cpsr,                            *)
(* perform_processing_operation and shift.                                 *)

\* the least and the greatest u32 and i32, and small numbers
SampleWords ==
    {ZeroWord, FromNat(1), FromNat(3), FromNat(5), W32(0, Half - 1),
     W32(Half \div 2 - 1, Half - 1), W32(Half \div 2, 0),
     W32(Half \div 2, 1), W32(Half - 1, Half - 1)}

Bytes == 0 .. mask(IMM_VALUE.size)
Rotates == 0 .. mask(IMM_SHIFT.size)

\* the 8-bit value rotated right by 2 * rotate in a 32-bit word: the low
\* 2 * rotate bits of the value move to the top of the word
RotatedByte(value, rotate) ==
    AddW(Shl(value % 4^rotate, (32 - 2 * rotate) % 32),
         FromNat(value \div 4^rotate))

\* every literal that is a rotated byte, and literals that are not
Literals == {RotatedByte(b, r) : b \in Bytes, r \in Rotates} \cup SampleWords

\* the NZCV patterns, with the other 28 bits of the CPSR clear or set
CpsrPatterns ==
    {W32(p * 2^12 + junk * (2^12 - 1), junk * (Half - 1)) :
        p \in 0 .. 15, junk \in {0, 1}}

\* u8 shift amounts: every amount below the width, and amounts from it on
ShiftAmounts == 0 .. 33 \cup {mask(8)}

InitCalls ==
    /\ stage = "calls"
    /\ \/ /\ call \in {[fn |-> "operand2", at |-> "expression",
                        value |-> Some(v)] : v \in Literals}
                      \cup {[fn |-> "operand2", at |-> "operand",
                             value |-> None, op2 |-> Immediate(b, r)] :
                               b \in Bytes, r \in Rotates}
                      \cup {[fn |-> "satisfies_cpsr", at |-> "called",
                             cond |-> c, cpsr_contents |-> w] :
                               c \in ConditionCodes, w \in CpsrPatterns}
          /\ overflow_checks = FALSE
       \/ /\ call \in {[fn |-> "perform_processing_operation",
                        at |-> "called", op1 |-> x, op2 |-> y,
                        opcode |-> o] :
                          x \in SampleWords, y \in SampleWords,
                          o \in ProcessingOpcodes}
                      \cup {[fn |-> "shift", at |-> "called", to_shift |-> x,
                             shift_amt |-> n, shift_type |-> t] :
                               x \in SampleWords, n \in ShiftAmounts,
                               t \in ShiftTypes}
          /\ overflow_checks \in BOOLEAN
    /\ source = <<>>
    /\ asm = IdleAsm
    /\ image = <<>>
    /\ memory = NoMemory
    /\ register_file = ZeroRegisters
    /\ pipeline = NewPipeline
    /\ origin = NoOrigin
    /\ printed = <<>>
    /\ codec = IdleCodec

NotCall == <<stage, source, asm, image, memory, register_file, pipeline,
             origin, printed, overflow_checks, codec>>

\* parse_operand2_constant: the literal becomes an operand-2 immediate, or
\* the line is rejected
Canonicalise ==
    /\ call.fn = "operand2" /\ call.at = "expression"
    /\ LET Got(op2) ==
               call' = IF op2.ok
                       THEN [fn |-> "operand2", at |-> "operand",
                             value |-> call.value, op2 |-> op2.val]
                       ELSE [fn |-> "operand2", at |-> "rejected",
                             value |-> call.value]
       IN  Got(expression_to_operand2(call.value.val))
    /\ UNCHANGED NotCall

\* the assembler writes the operand into the low 12 bits of the word
EncodeOperand ==
    /\ call.fn = "operand2" /\ call.at = "operand"
    /\ call' = [fn |-> "operand2", at |-> "bits", value |-> call.value,
                op2 |-> call.op2, bits |-> encode_operand2(call.op2)]
    /\ UNCHANGED NotCall

\* the emulator decodes the 12 bits and shifts the immediate; no register
\* is read for an immediate
ShiftOperand ==
    /\ call.fn = "operand2" /\ call.at = "bits"
    /\ LET Shifted(decoded) ==
               call' = [fn |-> "operand2", at |-> "shifted",
                        value |-> call.value, op2 |-> call.op2,
                        bits |-> call.bits, decoded |-> decoded,
                        result |-> barrel_shifter(decoded, ZeroRegisters,
                                                  overflow_checks)]
       IN  Shifted(decode_operand2_immediate(call.bits, 20).val)
    /\ UNCHANGED NotCall

CallSatisfiesCpsr ==
    /\ call.fn = "satisfies_cpsr" /\ call.at = "called"
    /\ call' = [fn |-> call.fn, at |-> "returned", cond |-> call.cond,
                cpsr_contents |-> call.cpsr_contents,
                result |-> satisfies_cpsr(call.cond, call.cpsr_contents)]
    /\ UNCHANGED NotCall

CallPerformProcessingOperation ==
    /\ call.fn = "perform_processing_operation" /\ call.at = "called"
    /\ call' = [fn |-> call.fn, at |-> "returned", op1 |-> call.op1,
                op2 |-> call.op2, opcode |-> call.opcode,
                result |-> perform_processing_operation(
                               call.op1, call.op2, call.opcode,
                               overflow_checks)]
    /\ UNCHANGED NotCall

CallShift ==
    /\ call.fn = "shift" /\ call.at = "called"
    /\ call' = [fn |-> call.fn, at |-> "returned",
                to_shift |-> call.to_shift, shift_amt |-> call.shift_amt,
                shift_type |-> call.shift_type,
                result |-> shift(call.to_shift, call.shift_amt,
                                 call.shift_type, overflow_checks)]
    /\ UNCHANGED NotCall

NextCalls ==
    \/ Canonicalise
    \/ EncodeOperand
    \/ ShiftOperand
    \/ CallSatisfiesCpsr
    \/ CallPerformProcessingOperation
    \/ CallShift

SpecCalls == InitCalls /\ [][NextCalls]_vars

----------------------------------------------------------------------------
(* C11: for every 32-bit v that is an 8-bit value rotated right by an even *)
(* amount in 0 .. 30, expression_to_operand2(v) succeeds and returns the   *)
(* pair (value, rotate) that represents v with the least rotate.           *)

Representable(v) == \E b \in Bytes, r \in Rotates : RotatedByte(b, r) = v

\* the literal has just been through expression_to_operand2
Canonicalised ==
    /\ call.fn = "operand2"
    /\ call.value.some
    /\ call.at \in {"operand", "rejected"}

C11_Canonical ==
    (Canonicalised /\ Representable(call.value.val)) =>
        /\ call.at = "operand"
        /\ RotatedByte(call.op2.to_shift, call.op2.shift_amt) = call.value.val
        /\ \A b \in Bytes, r \in Rotates :
               RotatedByte(b, r) = call.value.val => call.op2.shift_amt <= r

----------------------------------------------------------------------------
(* C12: for every immediate (value in 0 .. 255, rotate in 0 .. 15), the    *)
(* barrel shifter applied to the decoded operand-2 bits of the encoded     *)
(* immediate yields value rotated right by 2 * rotate; and where           *)
(* expression_to_operand2 succeeds on v, shifting its result yields v.     *)

----------------------------------------------------------------------------
(* C13: for every instruction I of the model, the word encode(I) is        *)
(* classified into I's own variant by the rule: the word 0 is Halt; else   *)
(* bits 27..26 = 00 with bits 7..4 = 1001 is Multiply, other 00 is         *)
(* Processing, 01 is Transfer, 10 is Branch.  In particular no Processing  *)
(* instruction encodes to a word classified as Multiply.                   *)

Classified(w) ==
    IF w = ZeroWord THEN "Halt"
    ELSE CASE extract_bits(w, 26, 2) = 0 /\ extract_bits(w, 4, 4) = 9 ->
                "Multiply"
           [] extract_bits(w, 26, 2) = 0 /\ extract_bits(w, 4, 4) # 9 ->
                "Processing"
           [] extract_bits(w, 26, 2) = 1 -> "Transfer"
           [] extract_bits(w, 26, 2) = 2 -> "Branch"
           [] OTHER -> "reserved"

\* the claim's particular case, which the general statement implies
C13_Classification ==
    (/\ codec.at \in {"word", "decoded"}
     /\ codec.instruction.instruction.type = "Processing") =>
        Classified(codec.word) # "Multiply"

----------------------------------------------------------------------------
(* C14: for each of the 16 NZCV patterns and each condition code,          *)
(* satisfies_cpsr is true exactly when Eq: Z = 1; Ne: Z = 0; Ge: N = V;    *)
(* Lt: N # V; Gt: Z = 0 and N = V; Le: Z = 1 or N # V; Al: always.  The C  *)
(* flag never changes the result.                                          *)

\* bits 31, 30 and 28 of the word, read off its upper half
FlagN(w) == w.hi \div 2^15 = 1
FlagZ(w) == (w.hi \div 2^14) % 2 = 1
FlagV(w) == (w.hi \div 2^12) % 2 = 1

\* the word with bit 29 inverted
FlippedC(w) ==
    W32(IF (w.hi \div 2^13) % 2 = 1 THEN w.hi - 2^13 ELSE w.hi + 2^13, w.lo)

ConditionTable(cond, w) ==
    CASE cond = "Eq" -> FlagZ(w)
      [] cond = "Ne" -> ~FlagZ(w)
      [] cond = "Ge" -> FlagN(w) = FlagV(w)
      [] cond = "Lt" -> FlagN(w) # FlagV(w)
      [] cond = "Gt" -> ~FlagZ(w) /\ FlagN(w) = FlagV(w)
      [] cond = "Le" -> FlagZ(w) \/ FlagN(w) # FlagV(w)
      [] cond = "Al" -> TRUE

C14_ConditionTable ==
    (call.fn = "satisfies_cpsr" /\ call.at = "returned") =>
        /\ call.result = ConditionTable(call.cond, call.cpsr_contents)
        /\ call.result =
               satisfies_cpsr(call.cond, FlippedC(call.cpsr_contents))

\* Gt on a CPSR with Z set and N = V was found not to hold
C14_GtWithZ ==
    /\ call.fn = "satisfies_cpsr" /\ call.at = "returned"
    /\ call.cond = "Gt"
    /\ call.cpsr_contents = W32(2^14 + 2^13, 0)
    /\ call.result = FALSE

----------------------------------------------------------------------------
(* C15: a load or store whose computed address is 65536 or more and is no  *)
(* GPIO address is reported and the run continues with the next            *)
(* instruction; no memory byte changes and R[Rd] is not written; only the  *)
(* post-index writeback to R[Rn] is applied.                               *)

\* the instruction in the decoded slot is about to execute, and fires
Firing(type) ==
    /\ Executing
    /\ pipeline.decoded.val.instruction.type = type
    /\ satisfies_cpsr(pipeline.decoded.val.cond, register_file[CPSR])

\* the offset of a transfer as execute_transfer reads it, with its sign
SignedOffset(instr) ==
    LET magnitude ==
            IF instr.offset.kind = "ConstantShift"
            THEN FromNat(instr.offset.shift_amt * 2^IMM_SHIFT.pos
                         + instr.offset.to_shift)
            ELSE barrel_shifter(instr.offset, register_file,
                                overflow_checks).val
    IN  IF instr.up_bit THEN magnitude ELSE NegW(magnitude)

TransferAddress(instr) ==
    IF instr.is_preindexed
    THEN AddW(register_file[instr.rn], SignedOffset(instr))
    ELSE register_file[instr.rn]

OutOfBoundsTransfer ==
    /\ Firing("Transfer")
    /\ TransferAddress(pipeline.decoded.val.instruction).hi > 0
    /\ ~gpio_accessed(TransferAddress(pipeline.decoded.val.instruction))

C15_OutOfBoundsNonFatal ==
    [][OutOfBoundsTransfer =>
         LET instr == pipeline.decoded.val.instruction
         IN  /\ execute(EmulatorState, pipeline.decoded.val,
                        overflow_checks).status = "ok"
             /\ memory' = memory
             /\ printed' =
                    Append(printed, "Error: Out of bounds memory access")
             /\ \A r \in Registers \ {PC} :
                    register_file'[r] =
                        IF r = instr.rn /\ ~instr.is_preindexed
                        THEN AddW(register_file[r], SignedOffset(instr))
                        ELSE register_file[r]]_vars

----------------------------------------------------------------------------
(* C16: a line `ldr Rd,=<expr>` whose literal is written with a minus sign *)
(* makes assembly fail with an operand-out-of-range error; no instruction  *)
(* word and no pool word is produced for it.                               *)

NegativeLiteral(i) ==
    asm.instructions[i].kind = "ldr_eq" /\ asm.instructions[i].is_signed

C16_NegativeLiteralRejected ==
    \A i \in 1 .. Len(asm.instructions) :
        NegativeLiteral(i) =>
            /\ asm.parsed < i
            /\ Len(asm.assembled) <= BYTES_IN_WORD * (i - 1)
            /\ stage \notin {"assembled", "running", "halted",
                             "emulator_panicked", "emulator_failed"}
            /\ asm.parsed = i - 1 => stage # "assembler_panicked"

----------------------------------------------------------------------------
(* The emulator run on binary files that no assembler wrote: instructions  *)
(* of every variant under every condition code, and Processing             *)
(* instructions with and without the S bit.                                *)

\* the file of a program: its instructions, a zero word (Halt), its data
Binary(instrs, data) ==
    LET words == [i \in 1 .. Len(instrs) |-> encode(instrs[i])]
                 \o <<ZeroWord>> \o data
    IN  Flatten([i \in 1 .. Len(words) |-> to_le_bytes(words[i])])

Always(instruction) == ConditionalInstruction(instruction, "Al")

\* ldr r<rd>,[pc,#offset], at address `at`, of the word at address `from`
LoadWord(rd, at, from) ==
    Always(Transfer(TRUE, TRUE, TRUE, PC, rd,
                    Immediate(from - at - PIPELINE_OFFSET, 0)))

\* nothing, cmp r0,#0 (sets Z and C) or cmp r0,#1 (sets N)
FlagSetups ==
    {<<>>, <<Always(Processing("Cmp", TRUE, 0, 0, Immediate(0, 0)))>>,
     <<Always(Processing("Cmp", TRUE, 0, 0, Immediate(1, 0)))>>}

\* movs r1,#1; mul r1,r2,r3; str r1,[r0]; b +4
Conditioned ==
    {Processing("Mov", TRUE, 0, 1, Immediate(1, 0)),
     Multiply(FALSE, FALSE, 1, 0, 3, 2),
     Transfer(TRUE, TRUE, FALSE, 0, 1, Immediate(0, 0)),
     Branch(1)}

\* the flags are set, then an instruction runs under a condition, then
\* mov r3,#3
ConditionBinaries ==
    {Binary(setup \o <<ConditionalInstruction(i, c),
                       Always(Processing("Mov", FALSE, 0, 3,
                                         Immediate(3, 0)))>>, <<>>) :
        setup \in FlagSetups, i \in Conditioned, c \in ConditionCodes}

ProcessingWords ==
    {ZeroWord, FromNat(1), W32(Half \div 2, 0), W32(Half - 1, Half - 1)}

\* #0xFF000000, #1, r2 lsl #1, r2 ror #1
ProcessingOperands ==
    {Immediate(mask(IMM_VALUE.size), 4), Immediate(1, 0),
     ConstantShiftedReg(2, "Lsl", 1), ConstantShiftedReg(2, "Ror", 1)}

\* r1 and r2 are loaded, then <opcode>{s} r3,r1,<operand2>
ProcessingBinaries ==
    {Binary(<<LoadWord(1, 0, 16), LoadWord(2, 4, 20),
              Always(Processing(o, s, 1, 3, op2))>>, <<x, y>>) :
        x \in ProcessingWords, y \in ProcessingWords,
        o \in ProcessingOpcodes, s \in BOOLEAN, op2 \in ProcessingOperands}

\* shift registers whose low 8 bits are 31, 32, 33, 255 and 32
ShiftRegisterWords ==
    {FromNat(31), FromNat(32), FromNat(33), FromNat(mask(8)),
     FromNat(2^8 + 32)}

\* r1 (not 0) and r2 are loaded, then mov{s} r3,r1,<shift> r2
ShiftBinaries ==
    {Binary(<<LoadWord(1, 0, 16), LoadWord(2, 4, 20),
              Always(Processing("Mov", s, 0, 3,
                                RegisterShiftedReg(1, t, 2)))>>,
            <<x, y>>) :
        x \in ProcessingWords \ {ZeroWord}, y \in ShiftRegisterWords,
        s \in BOOLEAN, t \in ShiftTypes}

\* r1, r2 and r4 are loaded, then mul{s} r3,r1,r2 or mla{s} r3,r1,r2,r4
MultiplyBinaries ==
    {Binary(<<LoadWord(1, 0, 20), LoadWord(2, 4, 24), LoadWord(4, 8, 28),
              Always(Multiply(a, s, 3, 4, 2, 1))>>, <<x, y, z>>) :
        x \in {FromNat(1), FromNat(3), W32(Half \div 2, 0),
               W32(Half - 1, Half - 1)},
        y \in {FromNat(1), FromNat(4), W32(Half - 1, Half - 1)},
        z \in {ZeroWord, FromNat(5), W32(Half - 1, Half - 1)},
        a \in BOOLEAN, s \in BOOLEAN}

\* offset fields 0, 1, -2, 2^22 - 2, 2^23 - 1, -2^23 and -1
BranchFields ==
    {0, 1, 2^24 - 2, 2^22 - 2, 2^23 - 1, 2^23, 2^24 - 1}

\* up to two mov r1,#1, then b with the offset field f, then mov r3,#3
BranchBinaries ==
    {Binary([i \in 1 .. n |->
                Always(Processing("Mov", FALSE, 0, 1, Immediate(1, 0)))]
            \o <<Always(Branch(f)),
                 Always(Processing("Mov", FALSE, 0, 3, Immediate(3, 0)))>>,
            <<>>) :
        n \in 0 .. 2, f \in BranchFields}

Binaries ==
    ConditionBinaries \cup ProcessingBinaries \cup ShiftBinaries
        \cup MultiplyBinaries \cup BranchBinaries

InitEmulate ==
    /\ stage = "assembled"
    /\ image \in Binaries
    /\ source = <<>>
    /\ asm = IdleAsm
    /\ memory = NoMemory
    /\ register_file = ZeroRegisters
    /\ pipeline = NewPipeline
    /\ origin = NoOrigin
    /\ printed = <<>>
    /\ overflow_checks \in BOOLEAN
    /\ codec = IdleCodec
    /\ call = NoCall

NextEmulate ==
    \/ Load
    \/ HaltStep
    \/ Cycle

SpecEmulate == InitEmulate /\ [][NextEmulate]_vars

----------------------------------------------------------------------------
(* C17: an instruction whose condition does not fire is a no-op: execute   *)
(* leaves every register, PC and CPSR included, every memory byte and both *)
(* pipeline slots unchanged, and the driver still performs that cycle's    *)
(* decode and fetch.                                                       *)

\* the instruction in the decoded slot is about to execute, and by the
\* table of condition codes it does not fire
NotFiring ==
    /\ Executing
    /\ ~ConditionTable(pipeline.decoded.val.cond, register_file[CPSR])

\* the cycle's decode and fetch, from the state the cycle starts in
DecodedAndFetched ==
    LET decoded == decode(pipeline.fetched.val)
        pc == register_file[PC]
    IN  IF ~decoded.ok
        THEN /\ stage' = "emulator_failed"
             /\ pipeline' = pipeline
             /\ register_file'[PC] = pc
        ELSE /\ pipeline'.decoded = Some(decoded.val)
             /\ (pc.hi = 0 /\ pc.lo + BYTES_IN_WORD <= MEMORY_SIZE) =>
                    /\ stage' = "running"
                    /\ pipeline'.fetched = Some(read_memory(memory, pc.lo))
                    /\ register_file'[PC] = AddW(pc, FromNat(BYTES_IN_WORD))

C17_NoOp ==
    [][NotFiring =>
         /\ execute(EmulatorState, pipeline.decoded.val, overflow_checks)
                = Done(EmulatorState)
         /\ memory' = memory
         /\ printed' = printed
         /\ \A r \in Registers \ {PC} : register_file'[r] = register_file[r]
         /\ pipeline.fetched.some
         /\ DecodedAndFetched]_vars

\* cmp r0,#0 / movgts r1,#1 / mov r3,#3 has halted: the mov under Gt did
\* nothing and the instruction after it ran
C17_SkippedAndHalted ==
    /\ stage = "halted"
    /\ image = Binary(<<Always(Processing("Cmp", TRUE, 0, 0, Immediate(0, 0))),
                        ConditionalInstruction(
                            Processing("Mov", TRUE, 0, 1, Immediate(1, 0)),
                            "Gt"),
                        Always(Processing("Mov", FALSE, 0, 3,
                                          Immediate(3, 0)))>>, <<>>)
    /\ register_file[1] = ZeroWord
    /\ register_file[3] = FromNat(3)
    /\ FlagZ(register_file[CPSR])

----------------------------------------------------------------------------
(* C18: when a Processing instruction with set_cond executes, afterwards   *)
(* Z = (result = 0), N = bit 31 of the result, C = the ALU carry for Sub,  *)
(* Rsb, Add and Cmp and C = the barrel shifter's carry-out for And, Eor,   *)
(* Orr, Mov, Tst and Teq, and V is unchanged; without set_cond the CPSR is *)
(* unchanged.                                                              *)

FlagC(w) == (w.hi \div 2^13) % 2 = 1

C18_ProcessingFlags ==
    [][(/\ Firing("Processing")
        /\ execute(EmulatorState, pipeline.decoded.val,
                   overflow_checks).status = "ok") =>
         LET instr == pipeline.decoded.val.instruction
             bs == barrel_shifter(instr.operand2, register_file,
                                  overflow_checks)
             alu == perform_processing_operation(
                        register_file[instr.rn], bs.val, instr.opcode,
                        overflow_checks)
             cpsr == register_file'[CPSR]
         IN  IF instr.set_cond
             THEN /\ FlagZ(cpsr) = (alu.val = ZeroWord)
                  /\ FlagN(cpsr) = (alu.val.hi >= Half \div 2)
                  /\ FlagC(cpsr) =
                         IF instr.opcode \in {"Sub", "Rsb", "Add", "Cmp"}
                         THEN alu.carry ELSE bs.carry
                  /\ FlagV(cpsr) = FlagV(register_file[CPSR])
             ELSE cpsr = register_file[CPSR]]_vars

----------------------------------------------------------------------------
(* C19: for all 32-bit op1 and op2, perform_processing_operation returns   *)
(* carry = true for Sub and Cmp exactly when op1 >= op2 as unsigned        *)
(* numbers (no borrow), and for Rsb exactly when op2 >= op1; the result of *)
(* Sub, Rsb and Cmp is the difference modulo 2^32.                         *)

\* x >= y as unsigned 32-bit numbers
GeU(x, y) == x.hi > y.hi \/ (x.hi = y.hi /\ x.lo >= y.lo)

C19_NotBorrow ==
    (/\ call.fn = "perform_processing_operation"
     /\ call.at = "returned"
     /\ call.opcode \in {"Sub", "Cmp", "Rsb"}) =>
        LET minuend == IF call.opcode = "Rsb" THEN call.op2 ELSE call.op1
            subtrahend == IF call.opcode = "Rsb" THEN call.op1 ELSE call.op2
        IN  /\ ~call.result.panic
            /\ call.result.carry = GeU(minuend, subtrahend)
            /\ call.result.val = SubW(minuend, subtrahend)

----------------------------------------------------------------------------
(* C20: for every 32-bit x and every shift amount n in 1 .. 31, shift      *)
(* returns carry_out = bit (32 - n) of x for Lsl and bit (n - 1) of x for  *)
(* Lsr, Asr and Ror; for an immediate operand with rotate > 0 the          *)
(* carry-out is bit (2 * rotate - 1) of the 8-bit value.                   *)

\* bit k of a word, for k in 0 .. 31
BitOf(w, k) ==
    IF k >= 16 THEN (w.hi \div 2^(k - 16)) % 2 = 1 ELSE (w.lo \div 2^k) % 2 = 1

C20_CarryOut ==
    /\ (/\ call.fn = "shift"
        /\ call.at = "returned"
        /\ call.shift_amt \in 1 .. 31) =>
           call.result.carry =
               IF call.shift_type = "Lsl"
               THEN BitOf(call.to_shift, 32 - call.shift_amt)
               ELSE BitOf(call.to_shift, call.shift_amt - 1)
    /\ (/\ call.fn = "operand2"
        /\ call.at = "shifted"
        /\ call.op2.shift_amt > 0) =>
           call.result.carry =
               BitOf(FromNat(call.op2.to_shift), 2 * call.op2.shift_amt - 1)

\* ---------------------------------------------------------------------
\* C21: for an amount n in 0 .. 31 the shifter returns x shifted left
\* (Lsl), shifted right with zero fill (Lsr), shifted right with copies of
\* bit 31 (Asr) or rotated right (Ror) by n, bit for bit, and an amount of
\* 0 returns x with carry false, without failing in either build.
ShiftedBit(x, n, type, k) ==
    CASE type = "Lsl" -> k >= n /\ BitOf(x, k - n)
      [] type = "Lsr" -> k + n <= 31 /\ BitOf(x, k + n)
      [] type = "Asr" -> IF k + n <= 31 THEN BitOf(x, k + n) ELSE BitOf(x, 31)
      [] type = "Ror" -> BitOf(x, (k + n) % 32)

C21_ShiftResult ==
    (/\ call.fn = "shift"
     /\ call.at = "returned"
     /\ call.shift_amt \in 0 .. 31) =>
        /\ ~call.result.panic
        /\ \A k \in 0 .. 31 :
              BitOf(call.result.val, k) =
                  ShiftedBit(call.to_shift, call.shift_amt,
                             call.shift_type, k)
        /\ call.shift_amt = 0 =>
              call.result = [val |-> call.to_shift, carry |-> FALSE,
                             panic |-> FALSE]

C21_SignFilled ==
    /\ call.fn = "shift"
    /\ call.at = "returned"
    /\ call.shift_type = "Asr"
    /\ call.shift_amt = 31
    /\ call.to_shift = [hi |-> 32768, lo |-> 0]
    /\ call.result.val = AllOnes

\* ---------------------------------------------------------------------
\* C22: a Processing instruction whose operand is a register shifted by a
\* register, with Lsl or Lsr and the low 8 bits of the shift register at
\* 32 or more, gets operand value 0 from the barrel shifter (mov then
\* writes 0 to Rd), and for an amount of exactly 32 the carry-out is the
\* last bit shifted out: bit 0 for Lsl, bit 31 for Lsr.
ShiftedByRegister(types) ==
    /\ Firing("Processing")
    /\ pipeline.decoded.val.instruction.operand2.kind = "ShiftedReg"
    /\ pipeline.decoded.val.instruction.operand2.shift.kind = "RegisterShift"
    /\ pipeline.decoded.val.instruction.operand2.shift.shift_type \in types

RegisterAmount ==
    register_file[pipeline.decoded.val.instruction.operand2.shift.shift_reg]
        .lo % 2^8

C22_WideShiftIsZero ==
    [][(/\ ShiftedByRegister({"Lsl", "Lsr"})
        /\ RegisterAmount >= 32) =>
         LET instr == pipeline.decoded.val.instruction
             x == register_file[instr.operand2.reg]
             bs == barrel_shifter(instr.operand2, register_file,
                                  overflow_checks)
         IN  /\ bs.val = ZeroWord
             /\ stage' = "running"
             /\ instr.opcode = "Mov" => register_file'[instr.rd] = ZeroWord
             /\ RegisterAmount = 32 =>
                   bs.carry = IF instr.operand2.shift.shift_type = "Lsl"
                              THEN BitOf(x, 0) ELSE BitOf(x, 31)]_vars

\* ---------------------------------------------------------------------
\* C23: a Multiply whose condition fires completes without error in
\* either build and writes (R[Rm] * R[Rs] + (R[Rn] if accumulate else 0))
\* mod 2^32 to Rd, also when the product or the sum exceeds 32 bits; no
\* other general register changes; with set_cond Z and N follow the
\* result and C and V keep their values, without it the CPSR is unchanged.
C23_Multiply ==
    [][Firing("Multiply") =>
         LET instr == pipeline.decoded.val.instruction
             product == MulW(register_file[instr.rm],
                             register_file[instr.rs]).val
             result == IF instr.accumulate
                       THEN AddW(product, register_file[instr.rn])
                       ELSE product
             cpsr == register_file'[CPSR]
         IN  /\ stage' = "running"
             /\ register_file'[instr.rd] = result
             /\ \A r \in 0 .. 12 \ {instr.rd} :
                   register_file'[r] = register_file[r]
             /\ IF instr.set_cond
                THEN /\ FlagZ(cpsr) = (result = ZeroWord)
                     /\ FlagN(cpsr) = BitOf(result, 31)
                     /\ FlagC(cpsr) = FlagC(register_file[CPSR])
                     /\ FlagV(cpsr) = FlagV(register_file[CPSR])
                ELSE cpsr = register_file[CPSR]]_vars

\* ---------------------------------------------------------------------
\* C24: a transfer whose condition fires completes; pre-indexed, it
\* accesses R[Rn] + offset (up bit set) or R[Rn] - offset (clear) and
\* leaves R[Rn] as it was unless Rn is the load's destination;
\* post-indexed, it accesses R[Rn] and then sets R[Rn] to R[Rn] +/- offset
\* modulo 2^32, after the access and also when the access was out of
\* range.  The access at an address that holds a whole word of memory
\* loads the word into Rd or stores Rd there.  (Stated for base registers
\* other than the PC and for addresses other than the last three bytes of
\* memory, where no whole word lies.)
WordInMemory(address) ==
    address.hi = 0 /\ address.lo + BYTES_IN_WORD <= MEMORY_SIZE

LastBytes(address) ==
    address.hi = 0 /\ address.lo + BYTES_IN_WORD > MEMORY_SIZE

C24_TransferAddressing ==
    [][(/\ Firing("Transfer")
        /\ pipeline.decoded.val.instruction.rn # PC
        /\ ~LastBytes(TransferAddress(pipeline.decoded.val.instruction))) =>
         LET instr == pipeline.decoded.val.instruction
             address == IF instr.is_preindexed
                        THEN AddW(register_file[instr.rn],
                                  SignedOffset(instr))
                        ELSE register_file[instr.rn]
             loads == instr.load /\ WordInMemory(address)
             accessed ==
                 IF loads
                 THEN [register_file EXCEPT ![instr.rd] =
                          read_memory(memory, address.lo)]
                 ELSE register_file
         IN  /\ stage' = "running"
             /\ (~instr.load /\ WordInMemory(address)) =>
                   memory' = write_memory(memory, address.lo,
                                          register_file[instr.rd])
             /\ (loads /\ (instr.is_preindexed \/ instr.rd # instr.rn)) =>
                   register_file'[instr.rd] = accessed[instr.rd]
             /\ register_file'[instr.rn] =
                    IF instr.is_preindexed THEN accessed[instr.rn]
                    ELSE AddW(accessed[instr.rn], SignedOffset(instr))]_vars

\* ---------------------------------------------------------------------
\* C25: when the word assembled from a line `ldr/str Rd,[Rn,#v]` or
\* `ldr/str Rd,[Rn],#v` (v written with or without a minus sign, v up to
\* 0xFF or stored as a rotated immediate) is executed and completes, the
\* emulator has used the offset v: a pre-indexed transfer accessed
\* R[Rn] +/- v and a post-indexed one left R[Rn] +/- v in Rn.
ExecutingImmediateTransfer ==
    /\ Firing("Transfer")
    /\ origin.decoded.some
    /\ origin.decoded.val.hi = 0
    /\ origin.decoded.val.lo < BYTES_IN_WORD * Len(asm.instructions)
    /\ LineAt(origin.decoded.val).kind = "transfer"
    /\ LineAt(origin.decoded.val).mode \in {"pre", "post"}
    /\ LineAt(origin.decoded.val).operand2.kind = "expr"

C25_ImmediateOffset ==
    [][(ExecutingImmediateTransfer /\ stage' = "running") =>
         LET line == LineAt(origin.decoded.val)
             v == IF line.operand2.is_signed
                  THEN NegW(line.operand2.value)
                  ELSE line.operand2.value
             base == register_file[line.rn]
             address == AddW(base, v)
         IN  IF line.mode = "post"
             THEN (line.rd # line.rn) => register_file'[line.rn] = address
             ELSE WordInMemory(address) =>
                    IF line.load
                    THEN register_file'[line.rd] =
                             read_memory(memory, address.lo)
                    ELSE memory' = write_memory(memory, address.lo,
                                                register_file[line.rd])]_vars

\* ---------------------------------------------------------------------
\* C26: a transfer whose address is below 65536 and holds a whole word
\* loads the little-endian word at that address into Rd or stores Rd
\* there; a transfer at one of the addresses 65533 .. 65535, and a fetch
\* with the PC past the last word of memory, would touch a byte index of
\* 65536 or more: the emulator reports it or returns an error, it never
\* aborts.
PcPastLastWord ==
    /\ stage = "running"
    /\ \/ LastBytes(register_file[PC])
       \/ register_file[PC] = W32(1, 0)

C26_StaysInMemory ==
    /\ [][(/\ Firing("Transfer")
           /\ TransferAddress(pipeline.decoded.val.instruction).hi = 0) =>
            LET instr == pipeline.decoded.val.instruction
                address == TransferAddress(instr)
            IN  IF LastBytes(address)
                THEN stage' # "emulator_panicked"
                ELSE stage' = "running" =>
                       IF instr.load
                       THEN (instr.is_preindexed \/ instr.rd # instr.rn) =>
                               register_file'[instr.rd] =
                                   read_memory(memory, address.lo)
                       ELSE memory' =
                               write_memory(memory, address.lo,
                                            register_file[instr.rd])]_vars
    /\ [][PcPastLastWord => stage' # "emulator_panicked"]_vars

\* ---------------------------------------------------------------------
\* C27: a taken Branch with the offset field f sets the PC to
\* (PC + 4 * s) mod 2^32, where s is f as a 24-bit two's-complement number
\* (negative exactly when bit 23 of f is set), and empties both pipeline
\* slots: the rest of its cycle fetches the word at the new PC, with
\* nothing decoded, or fails because the new PC holds no word of memory.
BranchTarget ==
    LET f == pipeline.decoded.val.instruction.offset
        s == IF f >= 2^23 THEN f - 2^24 ELSE f
    IN  AddW(register_file[PC], FromInt(BYTES_IN_WORD * s))

C27_BranchArithmetic ==
    [][Firing("Branch") =>
         IF WordInMemory(BranchTarget)
         THEN /\ stage' = "running"
              /\ register_file'[PC] =
                     AddW(BranchTarget, FromNat(BYTES_IN_WORD))
              /\ ~pipeline'.decoded.some
              /\ pipeline'.fetched =
                     Some(read_memory(memory, BranchTarget.lo))
         ELSE stage' # "running"]_vars

\* ---------------------------------------------------------------------
\* C28, as amended: when a taken branch executes, what was prefetched and
\* decoded behind it is dropped: the rest of the branch's own cycle
\* decodes nothing and fetches the word at the branch target.  The one
\* driver cycle that follows executes no instruction (no register but the
\* PC, no memory and no output changes) and decodes that word, so that the
\* cycle after it executes the instruction at the branch target.  A cycle
\* starts with a fetched word and nothing decoded only after a taken
\* branch or as the second cycle of a run.
PureCycle ==
    stage = "running" /\ ~pipeline.decoded.some /\ pipeline.fetched.some

\* the state a taken branch to an address other than 0 leaves behind
AfterBranch == PureCycle /\ origin.fetched # Some(ZeroWord)

Flushed ==
    /\ ~pipeline.decoded.some
    /\ origin.decoded = None
    /\ origin.fetched =
           Some(SubW(register_file[PC], FromNat(BYTES_IN_WORD)))
    /\ pipeline.fetched = Some(read_memory(memory, origin.fetched.val.lo))

NothingExecuted ==
    /\ memory' = memory
    /\ printed' = printed
    /\ \A r \in Registers \ {PC} : register_file'[r] = register_file[r]
    /\ register_file'[PC] = AddW(register_file[PC], FromNat(BYTES_IN_WORD))

C28_BranchFlushes ==
    [][(Firing("Branch") /\ stage' = "running") => Flushed']_vars

C28_OnePureCycle ==
    /\ C28_BranchFlushes
    /\ [][(PureCycle /\ stage' = "running") =>
             /\ NothingExecuted
             /\ pipeline'.decoded =
                    Some(decode(pipeline.fetched.val).val)
             /\ origin'.decoded = origin.fetched]_vars
    /\ [][AfterBranch' => Firing("Branch")]_vars

C28_TargetFetched ==
    /\ AfterBranch
    /\ Flushed
    /\ source \in BranchSources

\* C28, as stated: after the branch's cycle two driver cycles execute no
\* instruction, so the cycle that follows a taken branch ends, like the
\* branch's own, with nothing decoded.
C28_TwoPureCycles ==
    /\ C28_BranchFlushes
    /\ [][(AfterBranch /\ stage' = "running") =>
             /\ NothingExecuted
             /\ ~pipeline'.decoded.some]_vars

\* ---------------------------------------------------------------------
\* C29: the word the assembler emits for a data-processing line keeps
\* every field in its own bit range, whatever registers (r0 .. r12, r15,
\* r16) and constant shift amounts (up to 255) the line names: above the
\* 12 bits of operand-2 the word holds the line's Rd and Rn in their
\* 4-bit fields (what of a register number does not fit is dropped), S,
\* the opcode, the immediate bit and the condition Al, and nothing else.
ParsingProcessing ==
    /\ stage = "second_pass"
    /\ asm.parsed < Len(asm.instructions)
    /\ asm.instructions[asm.parsed + 1].kind = "processing"

C29_FieldsContained ==
    [][(ParsingProcessing /\ asm'.parsed = asm.parsed + 1) =>
         LET line == asm.instructions[asm.parsed + 1]
             word == LastWord(asm'.assembled)
             one == Len(line.regs) = 1
             rd == IF one /\ line.opcode # "Mov" THEN 0 ELSE line.regs[1]
             rn == IF ~one THEN line.regs[2]
                   ELSE IF line.opcode = "Mov" THEN 0 ELSE line.regs[1]
         IN  /\ extract_bits(word, COND.pos, COND.size) = 14
             /\ extract_bits(word, 26, 2) = 0
             /\ extract_bits(word, I.pos, I.size) =
                    Bool(line.operand2.kind = "expr")
             /\ extract_bits(word, OPCODE.pos, OPCODE.size) =
                    ProcessingOpcodeNum[line.opcode]
             /\ extract_bits(word, S.pos, S.size) =
                    Bool(one /\ line.opcode # "Mov")
             /\ extract_bits(word, RN.pos, RN.size) = rn % 2^RN.size
             /\ extract_bits(word, RD.pos, RD.size) = rd % 2^RD.size]_vars

\* ---------------------------------------------------------------------
\* C30: in every state of a run that starts from a loaded image with all
\* registers zero, bits 0 .. 28 of the CPSR are zero (only N, Z and C are
\* ever written, V never), no decoded instruction names a register above
\* 15, and so the condition Ge is satisfied exactly when N is clear and Lt
\* exactly when N is set.
DecodedRegisters ==
    IF ~pipeline.decoded.some THEN {}
    ELSE LET instr == pipeline.decoded.val.instruction
         IN  CASE instr.type \in {"Processing", "Transfer"} ->
                    {instr.rd, instr.rn}
               [] instr.type = "Multiply" ->
                    {instr.rd, instr.rn, instr.rs, instr.rm}
               [] OTHER -> {}

C30_CpsrShape ==
    /\ register_file[CPSR].lo = 0
    /\ register_file[CPSR].hi % 2^(CpsrFlag.C - 16) = 0
    /\ DecodedRegisters \subseteq 0 .. PC
    /\ satisfies_cpsr("Ge", register_file[CPSR])
           = ~BitOf(register_file[CPSR], CpsrFlag.N)
    /\ satisfies_cpsr("Lt", register_file[CPSR])
           = BitOf(register_file[CPSR], CpsrFlag.N)

C30_NegativeWithCarry ==
    /\ stage = "halted"
    /\ BitOf(register_file[CPSR], CpsrFlag.N)
    /\ BitOf(register_file[CPSR], CpsrFlag.C)
    /\ ~BitOf(register_file[CPSR], CpsrFlag.Z)

====
